---- MODULE Spec2Model ----
(***************************************************************************)
(* camera-layer-library: the frame clock (hooks/useFrameProcessor.ts), the *)
(* layer registry (hooks/useLayer.ts), the per-tick composition pipeline   *)
(* and the pointer handlers of the Cam component (components/Cam.tsx),     *)
(* its layer lifecycle effect and its detection notification effect, the  *)
(* detection producer (useDetection), the camera session                   *)
(* (hooks/useCamera.ts) and the formatting of its errors                   *)
(* (utils/errorHandling.ts).                                               *)
(*                                                                         *)
(* Time is the value of performance.now() in milliseconds.  The host is    *)
(* modelled by its queue of animation-frame requests: a request is the     *)
(* closure of its callback (the values the callback captured in the        *)
(* render that created it).                                                *)
(***************************************************************************)
EXTENDS Integers, Sequences, FiniteSets, Bags, TLC

\* ---------------------------------------------------------------- bounds
\* The last instant of the simulated clock.
MaxTime == 250
\* The granularity by which the simulated clock advances.
TimeStep == 25
\* The largest number of scheduling chains (pending requests and running
\* callbacks) next to which a commit that starts another one is explored.
MaxPending == 1
\* The last instant and the step of the clock in the runs with the detection
\* producer, whose timers are longer than a frame interval.
DetMaxTime == 1200
DetTimeStep == 100

\* The same for the runs of Cam with registry operations, which are short.
RegMaxTime == 200
RegTimeStep == 50

\* The largest number of ticks followed of a clock that accepts a tick
\* without time passing.
MaxTicks == 3

\* The largest number of getUserMedia calls followed in a run of useCamera:
\* the streams obtained and the calls still awaited.
MaxStreams == 3

\* The target rates explored (frames per second); the default of Cam is 20.
TargetRates == {20, 25}

\* No time: the value of a timestamp that has not been taken.
None == 0 - 1

VARIABLES
    now,               \* performance.now()
    targetFPS,         \* the targetFPS prop
    \* ---- useFrameProcessor
    fpMounted,         \* the component using the hook is mounted
    enabled,           \* the enabled prop of the committed render
    lastFrameTimeRef,  \* lastFrameTimeRef.current
    frameCountRef,     \* frameCountRef.current
    isProcessingRef,   \* isProcessingRef.current
    animationFrameRef, \* animationFrameRef.current is defined (an id)
    rafQueue,          \* the host's pending requests for processFrame
    inFlight,          \* closures of the processFrame calls inside onFrame
    \* ---- observation of useFrameProcessor (not program state)
    fpStart,           \* the time of the last start of the clock
    fpCalls,           \* the number of onFrame invocations since that start
    fpLastCall,        \* the time of the last of them
    fpPrevCall,        \* the time of the one before
    fpCover,           \* the run of windows that each had an opportunity
    fpOutcome,         \* what the last processFrame call did
    currentFPS,        \* what getCurrentFPS() returned, and when, if it was
                       \* the last thing the hook did: <<>> or <<[at, value]>>
    \* ---- useLayer
    layers,            \* the layers state, in registration order
    managedLayers,     \* the memoized sortedLayers the hook returns
    \* ---- Cam
    camMounted,        \* Cam is mounted (videoRef and canvasRef are set)
    stream,            \* useCamera holds a stream
    isReady,           \* the isReady state
    videoReady,        \* video.readyState === 4
    hasOnFrame,        \* the onFrame prop is configured
    camLastFrameTimeRef,   \* Cam's lastFrameTimeRef.current
    frameCounterRef,   \* frameCounterRef.current
    camAnimationFrameRef,  \* Cam's animationFrameRef.current is defined
    camRafQueue,       \* the host's pending requests for Cam's processFrame
    camTimeout,        \* the pending start timer: <<>> or <<[due, closure]>>
    camTick,           \* the processFrame call inside its callbacks, if any
    \* ---- observation of Cam (not program state)
    tickLog,           \* the callbacks of the current or last accepted tick
    ctxSaves,          \* ctx.save() calls of that tick
    ctxRestores,       \* ctx.restore() calls of that tick
    camCalls,          \* the number of accepted ticks
    camLastCall,       \* the time of the last accepted tick
    camPrevCall,       \* the time of the one before
    camCover,          \* the run of windows that each had an opportunity
    camOutcome,        \* what the last processFrame call did
    tickContext,       \* the layerContext of the current or last accepted tick
    detConsumed,       \* a tick has been accepted since detections was set
    \* ---- useCamera
    isActive,          \* the isActive state
    cameraError,       \* the error state: <<>> (null) or <<type>>
    sourceLost,        \* the video track ended and no stream came since
    \* ---- useDetection
    enableDetection,   \* the enabled prop of the committed render
    detectionConfig,   \* the config prop of the committed render
    isRunning,         \* the isRunning state
    detections,        \* the detections state: the current batch
    configRef,         \* configRef.current
    modelsLoadedRef,   \* modelsLoadedRef.current
    initTimers,        \* due times of the pending model initialisations
    detInterval,       \* the interval of the producer: <<>> or <<due>>
    detWanted,         \* the last enable/start or disable/stop request
    lastConfig,        \* the last config given, as prop or to updateConfig
    detOutcome,        \* what the producer did last: started, published, filtered
    \* ---- Cam pointer handlers
    observers,         \* which of the onClick and onHover props are configured
    ptrEvent,          \* the last pointer event the canvas received: its kind,
                       \* client point, canvas origin and the batch then current
    ptrCalls,          \* the handlers that event was dispatched to
    \* ---- useCamera: acquisition
    streamRef,         \* streamRef.current is set
    trackListened,     \* the live video track of that stream has the 'ended'
                       \* listener of startCamera
    requests,          \* the getUserMedia calls awaited: "start" or "switch"
    deviceCount,       \* devices.length
    cameraErrorMessage,    \* the message of the error state, if any
    stoppedByToggle,   \* observation: toggleCamera stopped the stream last
    onErrorArg,        \* observation: the last error Cam passed to onError
    \* ---- Cam layer lifecycle effect and the layer round of a tick
    lifeCleanup,       \* the cleanup the effect returned: <<>> or <<layers>>
    lifeLog,           \* observation: the onMount and onUnmount calls of the
                       \* last commit that ran the effect or its cleanup
    tickRound,         \* the layer loop of the tick in progress, when it is
                       \* taken layer by layer: <<>> or <<[sorted, next]>>
    \* ---- useCamera: the media streams
    obtained,          \* the streams getUserMedia resolved with, in order:
                       \* the device of each, whether its tracks are "live",
                       \* "stopped" (by stopStream) or "ended", and whether
                       \* its video track has the 'ended' listener
    streamOf,          \* the stream state: 0 (null) or the index of a stream
    refOf,             \* streamRef.current: 0 (null) or the index of a stream
    deviceId,          \* the deviceId prop of the committed render
    requestFor,        \* for each getUserMedia call awaited: the device asked
                       \* for, and whether the devices state of the calling
                       \* closure was not empty
    currentDevice,     \* the currentDevice state: 0 (null) or a device
    \* ---- Cam detection notification effect
    onDetection,       \* the onDetection prop of the committed render: 0
                       \* (none) or the identity of the function
    detLog             \* observation: the onDetection calls of the last
                       \* commit that ran the effect

clockVars == <<now, targetFPS>>
fpVars == <<fpMounted, enabled, lastFrameTimeRef, frameCountRef,
            isProcessingRef, animationFrameRef, rafQueue, inFlight,
            fpStart, fpCalls, fpLastCall, fpPrevCall, fpCover, fpOutcome,
            currentFPS>>
layerVars == <<layers, managedLayers>>
camVars == <<camMounted, stream, isReady, videoReady, hasOnFrame,
             camLastFrameTimeRef, frameCounterRef, camAnimationFrameRef,
             camRafQueue, camTimeout, camTick, tickLog, ctxSaves, ctxRestores,
             camCalls, camLastCall, camPrevCall, camCover, camOutcome>>
tickVars == <<tickContext, detConsumed>>
sessVars == <<isActive, cameraError, sourceLost>>
detVars == <<enableDetection, detectionConfig, isRunning, detections,
             configRef, modelsLoadedRef, initTimers, detInterval, detWanted,
             lastConfig, detOutcome>>
ptrVars == <<observers, ptrEvent, ptrCalls>>
ucVars == <<streamRef, trackListened, requests, deviceCount,
            cameraErrorMessage, stoppedByToggle, onErrorArg>>
lifeVars == <<lifeCleanup, lifeLog, tickRound>>
mediaVars == <<obtained, streamOf, refOf, deviceId, requestFor,
              currentDevice>>
noteVars == <<onDetection, detLog>>
vars == <<clockVars, fpVars, layerVars, camVars, tickVars, sessVars, detVars,
          ptrVars, ucVars, lifeVars, mediaVars, noteVars>>

\* ------------------------------------------------ host: animation frames
\* Every requestAnimationFrame call of the program assigns the returned id
\* to its ref, and ids are never reused, so the ref always holds the id of
\* the last request made.  The queue therefore keeps the closure of that
\* request apart (named: the request cancelAnimationFrame(ref) reaches, a
\* sequence that is empty once it has fired or was cancelled) from the
\* closures of the older pending requests (others, a bag), which no cancel
\* can reach any more.
EmptyQueue == [named |-> <<>>, others |-> EmptyBag]

Older(queue) ==
    IF queue.named = <<>> THEN queue.others
    ELSE queue.others (+) SetToBag({queue.named[1]})

\* ref.current = requestAnimationFrame(callback of closure)
RequestAnimationFrame(queue, closure) ==
    [named |-> <<closure>>, others |-> Older(queue)]

\* cancelAnimationFrame(ref.current)
CancelAnimationFrame(queue) == [named |-> <<>>, others |-> queue.others]

\* The number of pending requests.
Pending(queue) == BagCardinality(queue.others) + Len(queue.named)

\* The host takes the named request, or an older one with closure c, off
\* the queue to run its callback.
FireNamed(queue) == [named |-> <<>>, others |-> queue.others]
FireOlder(queue, c) == [named |-> queue.named,
                        others |-> queue.others (-) SetToBag({c})]

\* ------------------------------------------------- useFrameProcessor
\* targetFrameTime = 1000 / targetFPS: the rates explored divide 1000, and
\* 1000 / 0, which is Infinity in the arithmetic of the program, is a value
\* greater than every time.
TargetFrameTime(fps) ==
    IF fps = 0 THEN 1000 * 1000 * 1000
    ELSE IF fps < 0 THEN 0 - (1000 \div (0 - fps))
    ELSE 1000 \div fps

\* a % b of the program for a >= 0 and b # 0: the sign of b has no effect.
Remainder(a, b) == a % (IF b < 0 THEN 0 - b ELSE b)

\* if (elapsed < targetFrameTime): the frame is skipped
NeverTooEarly(elapsed, frameTime) == FALSE
TooEarly(elapsed, frameTime) == elapsed < frameTime

\* if (isProcessingRef.current): an invocation is in flight
NeverProcessing(flag) == FALSE
IsProcessing(flag) == flag

\* lastFrameTimeRef.current = now - (elapsed % targetFrameTime)
NoDriftCorrection(t, elapsed, frameTime) == t
DriftCorrected(t, elapsed, frameTime) == t - Remainder(elapsed, frameTime)

\* The interval window of time t of a clock whose last-tick timestamp
\* started at time start (with an interval that is not positive there are
\* no windows).
Window(t, start, frameTime) ==
    IF frameTime <= 0 THEN 0 ELSE (t - start) \div frameTime

\* The run of consecutive windows in each of which an opportunity reached
\* the timing check with no callback in flight: its length and its last
\* window.  An opportunity arrives in window w (window 0 ends before the
\* first interval has passed).
NoCover == [run |-> 0, last |-> 0]

Cover(c, w) ==
    IF w < 1 \/ (c.run > 0 /\ w = c.last) THEN c
    ELSE IF c.run > 0 /\ w = c.last + 1 THEN [run |-> c.run + 1, last |-> w]
    ELSE [run |-> 1, last |-> w]

\* The cleanup of the start/stop effect.
FPCleanup(queue, ref) ==
    IF ref THEN CancelAnimationFrame(queue) ELSE queue

\* A commit in which enabled, targetFrameTime or onFrame changed: the
\* start/stop effect is cleaned up and run again.  The commit may be flushed
\* synchronously while onFrame is running.
FPCommit(en) ==
    /\ fpMounted
    /\ en => BagCardinality(rafQueue.others) + Len(inFlight) < MaxPending + 1
    /\ enabled' = en
    /\ LET cleaned == FPCleanup(rafQueue, animationFrameRef) IN
       IF en
       THEN /\ lastFrameTimeRef' = now
            /\ frameCountRef' = 0
            /\ rafQueue' = RequestAnimationFrame(cleaned, [enabled |-> en])
            /\ animationFrameRef' = TRUE
            /\ fpStart' = now
            /\ fpCalls' = 0
            /\ fpLastCall' = None
            /\ fpPrevCall' = None
            /\ fpCover' = NoCover
       ELSE /\ rafQueue' = cleaned
            /\ UNCHANGED <<lastFrameTimeRef, frameCountRef, animationFrameRef,
                           fpStart, fpCalls, fpLastCall, fpPrevCall,
                           fpCover>>
    /\ currentFPS' = <<>>
    /\ UNCHANGED <<fpMounted, isProcessingRef, inFlight, fpOutcome>>
    /\ UNCHANGED <<clockVars, layerVars, camVars, tickVars, sessVars, detVars,
                   ptrVars,
                   ucVars, mediaVars, noteVars, lifeVars>>

\* The component unmounts: only the cleanup runs.
FPUnmount ==
    /\ fpMounted
    /\ fpMounted' = FALSE
    /\ rafQueue' = FPCleanup(rafQueue, animationFrameRef)
    /\ currentFPS' = <<>>
    /\ UNCHANGED <<enabled, lastFrameTimeRef, frameCountRef, isProcessingRef,
                   animationFrameRef, inFlight, fpStart, fpCalls, fpLastCall,
                   fpPrevCall, fpCover, fpOutcome>>
    /\ UNCHANGED <<clockVars, layerVars, camVars, tickVars, sessVars, detVars,
                   ptrVars,
                   ucVars, mediaVars, noteVars, lifeVars>>

\* processFrame, called with the closure of a request the host has taken off
\* the queue (fired: the queue without it), up to the call of onFrame.
FPProcessFrame(closure, fired) ==
    /\ LET frameTime == TargetFrameTime(targetFPS)
           elapsed == now - lastFrameTimeRef
       IN
       IF ~closure.enabled
       THEN /\ rafQueue' = fired
            /\ fpOutcome' = "disabled"
            /\ UNCHANGED <<lastFrameTimeRef, frameCountRef, isProcessingRef,
                           animationFrameRef, inFlight, fpCalls, fpLastCall,
                           fpPrevCall, fpCover>>
       ELSE /\ fpCover' = IF inFlight = <<>>
                          THEN Cover(fpCover, Window(now, fpStart, frameTime))
                          ELSE fpCover
            /\ IF TooEarly(elapsed, frameTime)
               THEN /\ rafQueue' = RequestAnimationFrame(fired, closure)
                    /\ animationFrameRef' = TRUE
                    /\ fpOutcome' = "early"
                    /\ UNCHANGED <<lastFrameTimeRef, frameCountRef,
                                   isProcessingRef, inFlight, fpCalls,
                                   fpLastCall, fpPrevCall>>
               ELSE IF IsProcessing(isProcessingRef)
               THEN /\ rafQueue' = RequestAnimationFrame(fired, closure)
                    /\ animationFrameRef' = TRUE
                    /\ fpOutcome' = "busy"
                    /\ UNCHANGED <<lastFrameTimeRef, frameCountRef,
                                   isProcessingRef, inFlight, fpCalls,
                                   fpLastCall, fpPrevCall>>
               ELSE /\ isProcessingRef' = TRUE
                    /\ lastFrameTimeRef' = DriftCorrected(now, elapsed, frameTime)
                    /\ frameCountRef' = frameCountRef + 1
                    /\ inFlight' = Append(inFlight, closure)
                    /\ fpCalls' = fpCalls + 1
                    /\ fpLastCall' = now
                    /\ fpPrevCall' = fpLastCall
                    /\ rafQueue' = fired
                    /\ fpOutcome' = "accepted"
                    /\ UNCHANGED animationFrameRef
    /\ currentFPS' = <<>>
    /\ UNCHANGED <<fpMounted, enabled, fpStart>>
    /\ UNCHANGED <<clockVars, layerVars, camVars, tickVars, sessVars, detVars,
                   ptrVars,
                   ucVars, mediaVars, noteVars, lifeVars>>

\* The host runs the callback of a pending request.
FPOpportunity ==
    \/ /\ rafQueue.named # <<>>
       /\ FPProcessFrame(rafQueue.named[1], FireNamed(rafQueue))
    \/ \E c \in BagToSet(rafQueue.others) :
           FPProcessFrame(c, FireOlder(rafQueue, c))

\* isProcessingRef.current after the try statement around onFrame(): the
\* finally block clears it whether onFrame returned or threw.
NoFinally(flag, threw) == IF threw THEN flag ELSE FALSE
AfterCallback(flag, threw) == FALSE

\* onFrame returns or throws (the error is caught and logged): the finally
\* block clears the flag and the next frame is scheduled.
FPCallbackEnd(threw) ==
    /\ inFlight # <<>>
    /\ LET closure == inFlight[Len(inFlight)] IN
       /\ inFlight' = SubSeq(inFlight, 1, Len(inFlight) - 1)
       /\ isProcessingRef' = AfterCallback(isProcessingRef, threw)
       /\ rafQueue' = RequestAnimationFrame(rafQueue, closure)
       /\ animationFrameRef' = TRUE
    /\ fpOutcome' = IF threw THEN "threw" ELSE "returned"
    /\ currentFPS' = <<>>
    /\ UNCHANGED <<fpMounted, enabled, lastFrameTimeRef, frameCountRef,
                   fpStart, fpCalls, fpLastCall, fpPrevCall, fpCover>>
    /\ UNCHANGED <<clockVars, layerVars, camVars, tickVars, sessVars, detVars,
                   ptrVars,
                   ucVars, mediaVars, noteVars, lifeVars>>

\* Math.round(n / d), for n >= 0 and d > 0: halves are rounded up.
Round(n, d) == (2 * n + d) \div (2 * d)

\* getCurrentFPS(), called at time t with that last-tick timestamp and that
\* frame count.
GetCurrentFPS(t, last, count) ==
    LET elapsed == t - last IN
    IF elapsed > 0 THEN Round(count * 1000, elapsed) ELSE 0

\* The component calls the getCurrentFPS the hook returned.
FPGetCurrentFPS ==
    /\ fpMounted
    /\ currentFPS' =
           <<[at |-> now,
              value |-> GetCurrentFPS(now, lastFrameTimeRef,
                                      frameCountRef)]>>
    /\ UNCHANGED <<fpMounted, enabled, lastFrameTimeRef, frameCountRef,
                   isProcessingRef, animationFrameRef, rafQueue, inFlight,
                   fpStart, fpCalls, fpLastCall, fpPrevCall, fpCover,
                   fpOutcome>>
    /\ UNCHANGED <<clockVars, layerVars, camVars, tickVars, sessVars, detVars,
                   ptrVars, ucVars, mediaVars, noteVars, lifeVars>>

\* The clock advances.
AdvanceTime ==
    /\ now + TimeStep <= MaxTime
    /\ now' = now + TimeStep
    /\ UNCHANGED <<targetFPS, fpVars, layerVars, camVars, tickVars, sessVars,
                   detVars, ptrVars,
                   ucVars, mediaVars, noteVars, lifeVars>>

\* ------------------------------------------------------------ useLayer
\* A layer is a record [id, zIndex, visible, onFrame, render], with onMount
\* and onUnmount where the lifecycle is followed.  An optional field is a
\* sequence: empty when the property is undefined, else holding its value.
\* A callback is "absent", "ok" (returns) or "throws".
LayerIds == {"A", "B", "C"}

\* prevLayers.some(l => l.id === id)
HasLayer(prev, id) == \E i \in 1..Len(prev) : prev[i].id = id

\* the updater of addLayer
AddLayerTo(prev, layer) ==
    IF HasLayer(prev, layer.id) THEN prev ELSE Append(prev, layer)

\* the updater of removeLayer
RemoveLayerFrom(prev, id) ==
    LET Keep(l) == l.id # id IN SelectSeq(prev, Keep)

\* { ...layer, ...updates, id: layer.id }
SpreadUpdates(layer, updates) ==
    [f \in DOMAIN layer |->
        IF f \in DOMAIN updates THEN updates[f] ELSE layer[f]]
MergeLayer(layer, updates) ==
    [f \in DOMAIN layer |->
        IF f # "id" /\ f \in DOMAIN updates THEN updates[f] ELSE layer[f]]

\* the updater of updateLayer
UpdateLayerIn(prev, id, updates) ==
    [i \in 1..Len(prev) |->
        IF prev[i].id = id THEN MergeLayer(prev[i], updates) ELSE prev[i]]

\* (l.zIndex || 0)
ZKey(l) == IF l.zIndex = <<>> THEN 0 ELSE l.zIndex[1]

\* the comparator (a, b) => (a.zIndex || 0) - (b.zIndex || 0)
CompareDescending(a, b) == ZKey(b) - ZKey(a)
CompareLayers(a, b) == ZKey(a) - ZKey(b)

\* Array.prototype.sort is stable: an element stays behind the elements that
\* precede it in the array and do not compare greater.
RECURSIVE InsertLayer(_, _)
InsertLayer(sorted, l) ==
    IF sorted = <<>> THEN <<l>>
    ELSE IF CompareLayers(Head(sorted), l) <= 0
         THEN <<Head(sorted)>> \o InsertLayer(Tail(sorted), l)
         ELSE <<l>> \o sorted

\* [...layers].sort(comparator)
RECURSIVE SortLayers(_)
SortLayers(ls) ==
    IF ls = <<>> THEN <<>>
    ELSE InsertLayer(SortLayers(SubSeq(ls, 1, Len(ls) - 1)), ls[Len(ls)])

\* -------------------------------------------------------- useDetection
\* A DetectionConfig holds the minConfidence of its faces and of its objects
\* entry, in percent; an entry or its minConfidence that is undefined is an
\* empty sequence.  An undefined config is NoConfig.
NoConfig == [faces |-> <<>>, objects |-> <<>>]

\* configRef.current?.faces?.minConfidence ||
\* configRef.current?.objects?.minConfidence || 0.5: 0 is falsy.
DefaultMinConfidence == 50
MinConfidence(cfg) ==
    IF cfg.faces # <<>> /\ cfg.faces[1] # 0 THEN cfg.faces[1]
    ELSE IF cfg.objects # <<>> /\ cfg.objects[1] # 0 THEN cfg.objects[1]
    ELSE DefaultMinConfidence

\* setTimeout(resolve, 100) of initializeDetection and setInterval(..., 500)
\* of the producer.
ModelLoadDelay == 100
DetectionInterval == 500

\* ----------------------------------------------------------------- Cam
\* setTimeout(..., 100) of the start/stop effect
StartDelay == 100

\* The name of the top-level onFrame observer in the log of a tick.
TopLevel == "Cam"

\* The closure of a processFrame created by a render: the values of its
\* dependencies it reads (isReady, detections, managedLayers).
CamClosureWith(rdy, managed, dets) ==
    [isReady |-> rdy, layers |-> managed, detections |-> dets]

\* The cleanup of the start/stop effect: clearTimeout (first branch) and
\* cancelAnimationFrame if the ref is set.
NoCleanup(queue, ref) == queue
CamCleanup(queue, ref) ==
    IF ref THEN CancelAnimationFrame(queue) ELSE queue

\* A commit of Cam in which isReady, stream or processFrame (through targetFPS,
\* detections, managedLayers, dimensions, currentDeviceInfo or onFrame)
\* changed: the start/stop effect is cleaned up and run again.
CamStartStopWith(rdy, str, managed, dets) ==
    /\ (rdy /\ str) =>
          BagCardinality(camRafQueue.others) + Len(camTick) < MaxPending + 1
    /\ camRafQueue' = CamCleanup(camRafQueue, camAnimationFrameRef)
    /\ camTimeout' = IF rdy /\ str
                     THEN <<[due |-> now + StartDelay,
                             closure |-> CamClosureWith(rdy, managed, dets)]>>
                     ELSE <<>>
    /\ UNCHANGED camAnimationFrameRef

CamStartStop(rdy, str, managed) ==
    CamStartStopWith(rdy, str, managed, detections)

\* layer.onMount, layer.onUnmount: a layer record without the field has no
\* such callback.
HasCallback(layer, name) == name \in DOMAIN layer /\ layer[name] # "absent"

\* for (const layer of managedLayers) { if (layer[name]) layer[name](...) }
RECURSIVE LifecycleCalls(_, _)
LifecycleCalls(ls, name) ==
    IF ls = <<>> THEN <<>>
    ELSE (IF HasCallback(Head(ls), name)
          THEN <<<<Head(ls).id, name>>>> ELSE <<>>)
             \o LifecycleCalls(Tail(ls), name)

\* The cleanup the lifecycle effect returned, over the managedLayers of the
\* render that ran it.
NoUnmountCalls(ls) == <<>>
UnmountCalls(ls) == LifecycleCalls(ls, "onUnmount")

LifecycleCleanup ==
    IF lifeCleanup = <<>> THEN <<>> ELSE UnmountCalls(lifeCleanup[1])

\* A commit of Cam in which managedLayers, isReady, dimensions or
\* currentDeviceInfo changed: the cleanup of the previous run of the layer
\* lifecycle effect, then the effect, which returns at once (without a
\* cleanup) when isReady is false.
LifecycleEffect(rdy, managed) ==
    /\ lifeLog' = LifecycleCleanup
                    \o (IF rdy THEN LifecycleCalls(managed, "onMount")
                        ELSE <<>>)
    /\ lifeCleanup' = IF rdy THEN <<managed>> ELSE <<>>
    /\ UNCHANGED tickRound

\* for (const layer of managedLayers) { if (layer.onDetection)
\*     layer.onDetection(detections, layerContext) }
\* A call is logged with the id of the detection of the batch.
RECURSIVE NotifyLayers(_, _)
NotifyLayers(ls, dets) ==
    IF ls = <<>> THEN <<>>
    ELSE (IF HasCallback(Head(ls), "onDetection")
          THEN <<<<Head(ls).id, "onDetection", dets[1].id>>>> ELSE <<>>)
             \o NotifyLayers(Tail(ls), dets)

\* The body of the detection notification effect, for the values of the
\* render that runs it.
DetectionCalls(en, dets, managed, observer) ==
    IF dets = <<>> \/ ~en THEN <<>>
    ELSE NotifyLayers(managed, dets)
             \o (IF observer # 0
                 THEN <<<<TopLevel, "onDetection", dets[1].id>>>> ELSE <<>>)

\* A commit of Cam in which detections, managedLayers, enableDetection,
\* dimensions, currentDeviceInfo or onDetection changed: the effect runs.
DetectionEffect(en, dets, managed, observer) ==
    /\ detLog' = DetectionCalls(en, dets, managed, observer)
    /\ UNCHANGED onDetection

\* The layers state changed to ls in a commit.
LayersCommitted(ls) ==
    /\ layers' = ls
    /\ managedLayers' = SortLayers(ls)
    /\ IF camMounted
       THEN /\ CamStartStop(isReady, stream, SortLayers(ls))
            /\ LifecycleEffect(isReady, SortLayers(ls))
            /\ DetectionEffect(enableDetection, detections, SortLayers(ls),
                               onDetection)
            /\ UNCHANGED <<camMounted, stream, isReady, videoReady, hasOnFrame,
                           camLastFrameTimeRef, frameCounterRef, camTick,
                           tickLog, ctxSaves, ctxRestores, camCalls,
                           camLastCall, camPrevCall, camCover, camOutcome>>
       ELSE UNCHANGED <<camVars, lifeVars, noteVars>>
    /\ UNCHANGED <<clockVars, fpVars, tickVars, sessVars, detVars, ptrVars,
                   ucVars, mediaVars>>

\* addLayer(layer): React bails out when the updater returns prevLayers.
AddLayer(layer) ==
    IF HasLayer(layers, layer.id)
    THEN UNCHANGED vars
    ELSE LayersCommitted(AddLayerTo(layers, layer))

\* removeLayer(layerId): filter always returns a new array.
RemoveLayer(id) == LayersCommitted(RemoveLayerFrom(layers, id))

\* updateLayer(layerId, updates): map always returns a new array.
UpdateLayer(id, updates) == LayersCommitted(UpdateLayerIn(layers, id, updates))

\* useCamera delivers a stream (startCamera: the stream is set, isActive is
\* set, the error is cleared), or the video track of its stream ends (the
\* 'ended' listener: isActive is cleared, the stream is cleared).  Host
\* events run between callbacks, never inside a tick.
CamStreamChange(str) ==
    /\ camMounted
    /\ camTick = <<>>
    /\ str # stream
    /\ stream' = str
    /\ isActive' = str
    /\ cameraError' = IF str THEN <<>> ELSE cameraError
    /\ sourceLost' = ~str
    /\ CamStartStop(isReady, str, managedLayers)
    /\ UNCHANGED <<camMounted, isReady, videoReady, hasOnFrame,
                   camLastFrameTimeRef, frameCounterRef, camTick, tickLog,
                   ctxSaves, ctxRestores, camCalls, camLastCall, camPrevCall,
                   camCover, camOutcome>>
    /\ UNCHANGED <<clockVars, fpVars, layerVars, tickVars, detVars, ptrVars,
                   ucVars, mediaVars, noteVars, lifeVars>>

\* startCamera fails (getUserMedia rejects): the error is set, isActive and
\* the stream are cleared.  startCamera has cleared a stream it found.
CamStartFailed(type) ==
    /\ camMounted
    /\ camTick = <<>>
    /\ ~stream
    /\ cameraError # <<type>>
    /\ cameraError' = <<type>>
    /\ isActive' = FALSE
    /\ UNCHANGED sourceLost
    /\ UNCHANGED <<clockVars, fpVars, layerVars, camVars, tickVars, detVars,
                   ptrVars,
                   ucVars, mediaVars, noteVars, lifeVars>>

\* handleLoadedMetadata: dimensions and device info are set, isReady is set;
\* the start/stop effect, the layer lifecycle effect and the detection
\* notification effect run again.
CamLoadedMetadata ==
    /\ camMounted
    /\ camTick = <<>>
    /\ stream
    /\ isReady' = TRUE
    /\ CamStartStop(TRUE, stream, managedLayers)
    /\ UNCHANGED <<camMounted, stream, videoReady, hasOnFrame,
                   camLastFrameTimeRef, frameCounterRef, camTick, tickLog,
                   ctxSaves, ctxRestores, camCalls, camLastCall, camPrevCall,
                   camCover, camOutcome>>
    /\ UNCHANGED <<clockVars, fpVars, layerVars, tickVars, sessVars, detVars,
                   ptrVars, ucVars, mediaVars>>
    /\ LifecycleEffect(TRUE, managedLayers)
    /\ DetectionEffect(enableDetection, detections, managedLayers,
                       onDetection)

\* The video element gains or loses HAVE_ENOUGH_DATA.
CamVideoReadyState(b) ==
    /\ camMounted
    /\ camTick = <<>>
    /\ b # videoReady
    /\ videoReady' = b
    /\ UNCHANGED <<camMounted, stream, isReady, hasOnFrame,
                   camLastFrameTimeRef, frameCounterRef, camAnimationFrameRef,
                   camRafQueue, camTimeout, camTick, tickLog, ctxSaves,
                   ctxRestores, camCalls, camLastCall, camPrevCall, camCover,
                   camOutcome>>
    /\ UNCHANGED <<clockVars, fpVars, layerVars, tickVars, sessVars, detVars,
                   ptrVars,
                   ucVars, mediaVars, noteVars, lifeVars>>

\* A render of Cam with another onDetection prop (0: none): of the effects
\* only the detection notification effect depends on it.
CamObserverChange(observer) ==
    /\ camMounted
    /\ camTick = <<>>
    /\ observer # onDetection
    /\ onDetection' = observer
    /\ detLog' = DetectionCalls(enableDetection, detections, managedLayers,
                                observer)
    /\ UNCHANGED <<clockVars, fpVars, layerVars, camVars, tickVars, sessVars,
                   detVars, ptrVars, ucVars, lifeVars, mediaVars>>

\* stopStream(mediaStream): every track of the stream is stopped.  Stopping
\* a track that has ended changes nothing.
StopStream(streams, k) ==
    IF k = 0 \/ streams[k].state # "live" THEN streams
    ELSE [streams EXCEPT ![k].state = "stopped"]

\* Cam unmounts: the cleanups of the start/stop effect, of the layer
\* lifecycle effect and of the mount effect of useCamera run (isMountedRef is
\* cleared and the stream in streamRef is stopped), and the refs of the video
\* and the canvas are cleared.
CamUnmount ==
    /\ camMounted
    /\ camMounted' = FALSE
    /\ camRafQueue' = CamCleanup(camRafQueue, camAnimationFrameRef)
    /\ camTimeout' = <<>>
    /\ UNCHANGED <<stream, isReady, videoReady, hasOnFrame,
                   camLastFrameTimeRef, frameCounterRef, camAnimationFrameRef,
                   camTick, tickLog, ctxSaves, ctxRestores, camCalls,
                   camLastCall, camPrevCall, camCover, camOutcome>>
    /\ UNCHANGED <<clockVars, fpVars, layerVars, tickVars, sessVars, detVars,
                   ptrVars, ucVars>>
    /\ obtained' = StopStream(obtained, refOf)
    /\ UNCHANGED <<streamOf, refOf, deviceId, requestFor, currentDevice>>
    /\ UNCHANGED noteVars
    /\ lifeLog' = LifecycleCleanup
    /\ lifeCleanup' = <<>>
    /\ UNCHANGED tickRound

\* The start timer fires: the first frame is requested.
CamTimerFires ==
    /\ camTick = <<>>
    /\ camTimeout # <<>>
    /\ now >= camTimeout[1].due
    /\ camRafQueue' = RequestAnimationFrame(camRafQueue, camTimeout[1].closure)
    /\ camAnimationFrameRef' = TRUE
    /\ camTimeout' = <<>>
    /\ UNCHANGED <<camMounted, stream, isReady, videoReady, hasOnFrame,
                   camLastFrameTimeRef, frameCounterRef, camTick, tickLog,
                   ctxSaves, ctxRestores, camCalls, camLastCall, camPrevCall,
                   camCover, camOutcome>>
    /\ UNCHANGED <<clockVars, fpVars, layerVars, tickVars, sessVars, detVars,
                   ptrVars, ucVars, mediaVars, noteVars, lifeVars>>

\* The loop over the sorted layers of a tick for frame number frame: the
\* callbacks invoked, the ctx.save() and ctx.restore() calls made, and the
\* layer whose callback threw (the loop ends there).
NoCalls == [log |-> <<>>, saves |-> 0, restores |-> 0, failed |-> <<>>]

RECURSIVE RunLayers(_, _, _)
RunLayers(sorted, frame, acc) ==
    IF sorted = <<>> THEN acc
    ELSE
      LET layer == Head(sorted)
          onFrameCalled ==
              IF layer.onFrame = "absent" THEN acc
              ELSE [acc EXCEPT
                      !.log = Append(@, <<layer.id, "onFrame", frame>>)]
          renderCalled ==
              IF layer.render = "absent" THEN onFrameCalled
              ELSE [onFrameCalled EXCEPT
                      !.saves = @ + 1,
                      !.log = Append(@, <<layer.id, "render", frame>>)]
          restored ==
              IF layer.render = "absent" THEN renderCalled
              ELSE [renderCalled EXCEPT !.restores = @ + 1]
      IN
      IF layer.visible = <<FALSE>> THEN RunLayers(Tail(sorted), frame, acc)
      ELSE IF layer.onFrame = "throws"
           THEN [onFrameCalled EXCEPT !.failed = <<layer.id>>]
      ELSE IF layer.render = "throws"
           THEN [renderCalled EXCEPT !.failed = <<layer.id>>]
      ELSE RunLayers(Tail(sorted), frame, restored)

\* createLayerContext of a tick: the detections of the closure and the frame.
\* The one context object is passed to every callback of the tick.
EmptyLayerContext(closure, frame) == [detections |-> <<>>, frame |-> frame]
CreateLayerContext(closure, frame) ==
    [detections |-> closure.detections, frame |-> frame]

\* Cam's processFrame, called with the closure of a request the host has taken
\* off the queue (fired: the queue without it), up to the end of the loop over
\* the layers.
CamProcessFrame(closure, fired) ==
    /\ IF ~camMounted \/ ~closure.isReady \/ ~videoReady
       THEN /\ camRafQueue' = fired
            /\ camOutcome' = "notReady"
            /\ UNCHANGED tickVars
            /\ UNCHANGED <<camLastFrameTimeRef, frameCounterRef,
                           camAnimationFrameRef, camTick, tickLog, ctxSaves,
                           ctxRestores, camCalls, camLastCall, camPrevCall,
                           camCover>>
       ELSE
         LET frameTime == TargetFrameTime(targetFPS)
             elapsed == now - camLastFrameTimeRef
             frame == frameCounterRef + 1
             sortedLayers == SortLayers(closure.layers)
             run == RunLayers(sortedLayers, frame, NoCalls)
         IN
         /\ camCover' = Cover(camCover, Window(now, 0, frameTime))
         /\ IF TooEarly(elapsed, frameTime)
            THEN /\ camRafQueue' = RequestAnimationFrame(fired, closure)
                 /\ camAnimationFrameRef' = TRUE
                 /\ camOutcome' = "early"
                 /\ UNCHANGED tickVars
                 /\ UNCHANGED <<camLastFrameTimeRef, frameCounterRef, camTick,
                                tickLog, ctxSaves, ctxRestores, camCalls,
                                camLastCall, camPrevCall>>
            ELSE /\ camLastFrameTimeRef' =
                        DriftCorrected(now, elapsed, frameTime)
                 /\ frameCounterRef' = frame
                 /\ camTick' = <<[closure |-> closure, frame |-> frame,
                                  failed |-> run.failed]>>
                 /\ tickLog' = run.log
                 /\ ctxSaves' = run.saves
                 /\ ctxRestores' = run.restores
                 /\ camCalls' = camCalls + 1
                 /\ camLastCall' = now
                 /\ camPrevCall' = camLastCall
                 /\ camRafQueue' = fired
                 /\ camOutcome' = "accepted"
                 /\ tickContext' = <<CreateLayerContext(closure, frame)>>
                 /\ detConsumed' = IF closure.detections = detections
                                    THEN TRUE ELSE detConsumed
                 /\ UNCHANGED camAnimationFrameRef
    /\ UNCHANGED <<camMounted, stream, isReady, videoReady, hasOnFrame,
                   camTimeout>>
    /\ UNCHANGED <<clockVars, fpVars, layerVars, sessVars, detVars, ptrVars,
                   ucVars, mediaVars, noteVars, lifeVars>>

\* The host runs the callback of a pending request of Cam; callbacks run to
\* completion, so none starts while a tick is inside its callbacks.
CamOpportunity ==
    /\ camTick = <<>>
    /\ \/ /\ camRafQueue.named # <<>>
          /\ CamProcessFrame(camRafQueue.named[1], FireNamed(camRafQueue))
       \/ \E c \in BagToSet(camRafQueue.others) :
              CamProcessFrame(c, FireOlder(camRafQueue, c))

\* The same processFrame with its loop over the layers taken one layer at a
\* time, so that what a layer callback does (a call of addLayer, removeLayer
\* or updateLayer and the commit that follows) falls between two layers.
\* The loop iterates the const sortedLayers of the call: the sorted copy of
\* the managedLayers of its closure.
LiveLayers(round) == SortLayers(managedLayers)
RoundLayers(round) == round.sorted

\* processFrame up to the start of the loop, when the tick is accepted.
CamRoundStart(closure, fired) ==
    LET frameTime == TargetFrameTime(targetFPS)
        elapsed == now - camLastFrameTimeRef
        frame == frameCounterRef + 1
    IN
    /\ camMounted /\ closure.isReady /\ videoReady
    /\ ~TooEarly(elapsed, frameTime)
    /\ camCover' = Cover(camCover, Window(now, 0, frameTime))
    /\ camLastFrameTimeRef' = DriftCorrected(now, elapsed, frameTime)
    /\ frameCounterRef' = frame
    /\ camTick' = <<[closure |-> closure, frame |-> frame, failed |-> <<>>]>>
    /\ tickRound' = <<[sorted |-> SortLayers(closure.layers), next |-> 1]>>
    /\ tickLog' = <<>>
    /\ ctxSaves' = 0
    /\ ctxRestores' = 0
    /\ camCalls' = camCalls + 1
    /\ camLastCall' = now
    /\ camPrevCall' = camLastCall
    /\ camRafQueue' = fired
    /\ camOutcome' = "accepted"
    /\ tickContext' = <<CreateLayerContext(closure, frame)>>
    /\ detConsumed' = IF closure.detections = detections
                       THEN TRUE ELSE detConsumed
    /\ UNCHANGED <<camMounted, stream, isReady, videoReady, hasOnFrame,
                   camTimeout, camAnimationFrameRef>>
    /\ UNCHANGED <<clockVars, fpVars, layerVars, sessVars, detVars, ptrVars,
                   ucVars, mediaVars, noteVars, lifeCleanup, lifeLog>>

\* A call of processFrame: accepted as above, or skipped or too early as in
\* CamProcessFrame.
CamRoundCall(closure, fired) ==
    IF /\ camMounted /\ closure.isReady /\ videoReady
       /\ ~TooEarly(now - camLastFrameTimeRef, TargetFrameTime(targetFPS))
    THEN CamRoundStart(closure, fired)
    ELSE CamProcessFrame(closure, fired)

CamRoundOpportunity ==
    /\ camTick = <<>>
    /\ \/ /\ camRafQueue.named # <<>>
          /\ CamRoundCall(camRafQueue.named[1], FireNamed(camRafQueue))
       \/ \E c \in BagToSet(camRafQueue.others) :
              CamRoundCall(c, FireOlder(camRafQueue, c))

\* One iteration of the loop: the callbacks of the next layer.
CamRoundStep ==
    /\ camTick # <<>>
    /\ tickRound # <<>>
    /\ camTick[1].failed = <<>>
    /\ tickRound[1].next <= Len(RoundLayers(tickRound[1]))
    /\ LET layer == RoundLayers(tickRound[1])[tickRound[1].next]
           run == RunLayers(<<layer>>, camTick[1].frame,
                            [log |-> tickLog, saves |-> ctxSaves,
                             restores |-> ctxRestores, failed |-> <<>>])
       IN /\ tickLog' = run.log
          /\ ctxSaves' = run.saves
          /\ ctxRestores' = run.restores
          /\ camTick' = <<[camTick[1] EXCEPT !.failed = run.failed]>>
          /\ tickRound' = <<[tickRound[1] EXCEPT !.next = @ + 1]>>
    /\ UNCHANGED <<camMounted, stream, isReady, videoReady, hasOnFrame,
                   camLastFrameTimeRef, frameCounterRef, camAnimationFrameRef,
                   camRafQueue, camTimeout, camCalls, camLastCall, camPrevCall,
                   camCover, camOutcome>>
    /\ UNCHANGED <<clockVars, fpVars, layerVars, tickVars, sessVars, detVars,
                   ptrVars, ucVars, mediaVars, noteVars, lifeCleanup, lifeLog>>

\* The rest of processFrame after the loop over the layers (with the loop
\* taken layer by layer: once it has ended): an error thrown
\* by a layer leaves processFrame; otherwise the observer is called and the
\* next frame is scheduled.
CamTickEnd ==
    /\ camTick # <<>>
    /\ tickRound # <<>> =>
           (camTick[1].failed # <<>>
               \/ tickRound[1].next > Len(RoundLayers(tickRound[1])))
    /\ camTick' = <<>>
    /\ tickRound' = <<>>
    /\ IF camTick[1].failed # <<>>
       THEN /\ camOutcome' = "threw"
            /\ UNCHANGED <<tickLog, camRafQueue, camAnimationFrameRef>>
       ELSE /\ tickLog' = IF hasOnFrame
                          THEN Append(tickLog,
                                      <<TopLevel, "onFrame", camTick[1].frame>>)
                          ELSE tickLog
            /\ camRafQueue' =
                   RequestAnimationFrame(camRafQueue, camTick[1].closure)
            /\ camAnimationFrameRef' = TRUE
            /\ camOutcome' = "done"
    /\ UNCHANGED <<camMounted, stream, isReady, videoReady, hasOnFrame,
                   camLastFrameTimeRef, frameCounterRef, camTimeout, ctxSaves,
                   ctxRestores, camCalls, camLastCall, camPrevCall, camCover>>
    /\ UNCHANGED <<clockVars, fpVars, layerVars, tickVars, sessVars, detVars,
                   ptrVars, ucVars, mediaVars, noteVars, lifeCleanup, lifeLog>>

\* ------------------------------------------- useDetection: operations
\* The confidences (percent) and bounding boxes the producer draws its one
\* detection from: confidence is 0.8 + random * 0.2, x is below 500, y below
\* 300, width and height are 50 to 150.
MockConfidences == {80, 95}
MockBoxes == {[x |-> 10, y |-> 10, width |-> 50, height |-> 50]}

\* The configs explored: none, a faces threshold, and a faces threshold of
\* 0 beside an objects threshold.
DetectionConfigs ==
    {NoConfig,
     [faces |-> <<90>>, objects |-> <<>>],
     [faces |-> <<0>>, objects |-> <<90>>]}

\* A commit in which the detections state is dets (a new array): inside Cam
\* processFrame is created anew, so the start/stop effect is cleaned up and
\* run again, and the detection notification effect runs.
DetectionsCommitted(dets) ==
    /\ detections' = dets
    /\ detConsumed' = FALSE
    /\ UNCHANGED tickContext
    /\ IF camMounted
       THEN /\ CamStartStopWith(isReady, stream, managedLayers, dets)
            /\ DetectionEffect(enableDetection, dets, managedLayers,
                               onDetection)
            /\ UNCHANGED <<camMounted, stream, isReady, videoReady, hasOnFrame,
                           camLastFrameTimeRef, frameCounterRef, camTick,
                           tickLog, ctxSaves, ctxRestores, camCalls,
                           camLastCall, camPrevCall, camCover, camOutcome>>
       ELSE UNCHANGED <<camVars, noteVars>>

\* setIsRunning(true) committed: the producer effect sets its interval if
\* isRunning was false.
StartedInterval ==
    IF isRunning THEN detInterval ELSE <<now + DetectionInterval>>

\* stopDetection(): isRunning is cleared (the cleanup of the producer effect
\* clears the interval) and detections is set to [].
StopDetectionCommitted ==
    /\ isRunning' = FALSE
    /\ detInterval' = <<>>
    /\ DetectionsCommitted(<<>>)

\* The enabled prop changes in a commit.  From true to false the cleanup of
\* the initialisation effect runs (stopDetection, modelsLoadedRef cleared);
\* the pending setTimeout of initializeDetection is not cleared.  From false
\* to true initializeDetection starts to wait.
DetEnabledCommit(en) ==
    /\ camTick = <<>>
    /\ en # enableDetection
    /\ enableDetection' = en
    /\ detWanted' = en
    /\ IF en
       THEN /\ Len(initTimers) < MaxPending
            /\ initTimers' = Append(initTimers, now + ModelLoadDelay)
            /\ UNCHANGED <<isRunning, detections, modelsLoadedRef,
                           detInterval, tickVars, camVars>>
            /\ IF camMounted
               THEN DetectionEffect(TRUE, detections, managedLayers,
                                    onDetection)
               ELSE UNCHANGED noteVars
       ELSE /\ StopDetectionCommitted
            /\ modelsLoadedRef' = FALSE
            /\ UNCHANGED initTimers
    /\ UNCHANGED detOutcome
    /\ UNCHANGED <<detectionConfig, configRef, lastConfig>>
    /\ UNCHANGED <<clockVars, fpVars, layerVars, sessVars, ptrVars,
                   ucVars, mediaVars, lifeVars>>

\* The setTimeout of an initializeDetection resolves: modelsLoadedRef is set
\* and, enabled being true in the closure of every initializeDetection,
\* startDetection() is called.
DetInitDone ==
    /\ camTick = <<>>
    /\ initTimers # <<>>
    /\ now >= Head(initTimers)
    /\ initTimers' = Tail(initTimers)
    /\ modelsLoadedRef' = TRUE
    /\ isRunning' = TRUE
    /\ detInterval' = StartedInterval
    /\ detOutcome' = "started"
    /\ UNCHANGED <<enableDetection, detectionConfig, detections, configRef,
                   detWanted, lastConfig>>
    /\ UNCHANGED <<clockVars, fpVars, layerVars, camVars, tickVars, sessVars,
                   ptrVars,
                   ucVars, mediaVars, noteVars, lifeVars>>

\* startDetection() called by the user of the hook.
DetStart ==
    /\ camTick = <<>>
    /\ isRunning' = TRUE
    /\ detInterval' = StartedInterval
    /\ detWanted' = TRUE
    /\ detOutcome' = "started"
    /\ UNCHANGED <<enableDetection, detectionConfig, detections, configRef,
                   modelsLoadedRef, initTimers, lastConfig>>
    /\ UNCHANGED <<clockVars, fpVars, layerVars, camVars, tickVars, sessVars,
                   ptrVars,
                   ucVars, mediaVars, noteVars, lifeVars>>

\* stopDetection() called by the user of the hook.
DetStop ==
    /\ camTick = <<>>
    /\ StopDetectionCommitted
    /\ detWanted' = FALSE
    /\ UNCHANGED detOutcome
    /\ UNCHANGED <<enableDetection, detectionConfig, configRef,
                   modelsLoadedRef, initTimers, lastConfig>>
    /\ UNCHANGED <<clockVars, fpVars, layerVars, sessVars, ptrVars,
                   ucVars, mediaVars, lifeVars>>

\* updateConfig(newConfig): configRef.current is set (there is no worker to
\* post the config to).
DetUpdateConfig(cfg) ==
    /\ camTick = <<>>
    /\ configRef' = cfg
    /\ lastConfig' = cfg
    /\ UNCHANGED detOutcome
    /\ UNCHANGED <<enableDetection, detectionConfig, isRunning, detections,
                   modelsLoadedRef, initTimers, detInterval, detWanted>>
    /\ UNCHANGED <<clockVars, fpVars, layerVars, camVars, tickVars, sessVars,
                   ptrVars,
                   ucVars, mediaVars, noteVars, lifeVars>>

\* A render with a new config prop: useRef(config) keeps its first value and
\* no effect depends on config.
DetConfigProp(cfg) ==
    /\ camTick = <<>>
    /\ cfg # detectionConfig
    /\ detectionConfig' = cfg
    /\ lastConfig' = cfg
    /\ UNCHANGED detOutcome
    /\ UNCHANGED <<enableDetection, isRunning, detections, configRef,
                   modelsLoadedRef, initTimers, detInterval, detWanted>>
    /\ UNCHANGED <<clockVars, fpVars, layerVars, camVars, tickVars, sessVars,
                   ptrVars,
                   ucVars, mediaVars, noteVars, lifeVars>>

\* The callback of the producer's interval: a mock detection with confidence
\* conf and bounding box box is made and, if it passes the threshold,
\* published as the new batch.
DetIntervalFires(conf, box) ==
    /\ camTick = <<>>
    /\ detInterval # <<>>
    /\ now >= detInterval[1]
    /\ detInterval' = <<detInterval[1] + DetectionInterval>>
    /\ IF conf >= MinConfidence(configRef)
       THEN /\ DetectionsCommitted(<<[id |-> now, confidence |-> conf,
                                       bbox |-> box, timestamp |-> now]>>)
            /\ detOutcome' = "published"
       ELSE /\ detOutcome' = "filtered"
            /\ UNCHANGED <<detections, tickVars, camVars, noteVars>>
    /\ UNCHANGED <<enableDetection, detectionConfig, isRunning, configRef,
                   modelsLoadedRef, initTimers, detWanted, lastConfig>>
    /\ UNCHANGED <<clockVars, fpVars, layerVars, sessVars, ptrVars,
                   ucVars, mediaVars, lifeVars>>

\* The clock advances in the runs of the detection producer, whose timers
\* are longer than a frame interval.
DetAdvanceTime ==
    /\ now + DetTimeStep <= DetMaxTime
    /\ now' = now + DetTimeStep
    /\ UNCHANGED <<targetFPS, fpVars, layerVars, camVars, tickVars, sessVars,
                   detVars, ptrVars,
                   ucVars, mediaVars, noteVars, lifeVars>>

\* ------------------------------------------------ Cam: pointer handlers
\* event.clientX - rect.left, event.clientY - rect.top
ClientCoordinate(client, origin) == client
CanvasCoordinate(client, origin) == client - origin

\* The LayerClickEvent or LayerHoverEvent a handler builds from the client
\* point of the native event and the origin of the canvas rectangle: x, y
\* and nativeEvent; its layer and detection properties are not set.
PointerEvent(point, origin) ==
    [x |-> CanvasCoordinate(point[1], origin[1]),
     y |-> CanvasCoordinate(point[2], origin[2]),
     layer |-> <<>>, detection |-> <<>>]

\* The loop over managedLayers of a handler: the onClick or onHover of every
\* layer that is interactive and has it is called, in the order of the view.
RECURSIVE LayerHandlerCalls(_, _, _)
LayerHandlerCalls(managed, handler, event) ==
    IF managed = <<>> THEN <<>>
    ELSE LET layer == Head(managed)
             rest == LayerHandlerCalls(Tail(managed), handler, event)
         IN IF layer.interactive = <<TRUE>> /\ layer[handler] # "absent"
            THEN <<<<layer.id, handler, event>>>> \o rest
            ELSE rest

\* The calls of a handler: the layers, then the observer prop if configured.
HandlerCalls(handler, event) ==
    LayerHandlerCalls(managedLayers, handler, event)
        \o (IF observers[handler] THEN <<<<TopLevel, handler, event>>>>
            ELSE <<>>)

\* A native event of a kind at a client point reaches a handler that calls
\* the onClick or onHover callbacks.
Dispatch(kind, handler, point, origin) ==
    /\ camMounted
    /\ camTick = <<>>
    /\ ptrEvent' = <<[kind |-> kind, point |-> <<point>>, origin |-> origin,
                      detections |-> detections]>>
    /\ ptrCalls' = HandlerCalls(handler, PointerEvent(point, origin))
    /\ UNCHANGED observers
    /\ UNCHANGED <<clockVars, fpVars, layerVars, camVars, tickVars, sessVars,
                   detVars,
                   ucVars, mediaVars, noteVars, lifeVars>>

\* handleCanvasClick (onClick of the canvas)
CanvasClick(point, origin) == Dispatch("click", "onClick", point, origin)

\* handleCanvasHover (onMouseMove of the canvas)
CanvasHover(point, origin) == Dispatch("hover", "onHover", point, origin)

\* handleCanvasTouch (onTouchStart of the canvas): nothing is done for an
\* event without touches, else the first touch is dispatched as a click.
CanvasTouch(touches, origin) ==
    IF touches = <<>>
    THEN /\ camMounted
         /\ camTick = <<>>
         /\ ptrEvent' = <<[kind |-> "touch", point |-> <<>>,
                           origin |-> origin, detections |-> detections]>>
         /\ ptrCalls' = <<>>
         /\ UNCHANGED observers
         /\ UNCHANGED <<clockVars, fpVars, layerVars, camVars, tickVars,
                        sessVars, detVars,
                        ucVars, mediaVars, noteVars, lifeVars>>
    ELSE Dispatch("touch", "onClick", touches[1], origin)

\* isPointInBoundingBox(x, y, bbox)
IsPointInBoundingBox(x, y, bbox) ==
    /\ x >= bbox.x
    /\ x <= bbox.x + bbox.width
    /\ y >= bbox.y
    /\ y <= bbox.y + bbox.height

\* findDetectionAtPoint(x, y, detections): the last detection of the array
\* whose box holds the point, or undefined.
RECURSIVE FindDetectionAtPoint(_, _, _)
FindDetectionAtPoint(x, y, dets) ==
    IF dets = <<>> THEN <<>>
    ELSE IF IsPointInBoundingBox(x, y, dets[Len(dets)].bbox)
         THEN <<dets[Len(dets)]>>
         ELSE FindDetectionAtPoint(x, y, SubSeq(dets, 1, Len(dets) - 1))

\* ------------------------------------------------ errorHandling.ts
\* The messages the error states of useCamera carry.
PermissionDeniedMessage ==
    "Camera permission denied. Please allow camera access and try again."
NoDeviceMessage ==
    "No camera device found. Please connect a camera and try again."
InUseMessage == "Camera is already in use by another application."
ConstraintsMessage == "Camera does not support the requested constraints."
AccessFailedMessage == "Failed to access camera"
SwitchFailedMessage == "Failed to switch camera"
EnumerateFailedMessage == "Failed to enumerate devices"

\* message.includes(word), for the words handleCameraError looks for
\* (includes is case sensitive: "Camera" does not include "camera").
Includes(message, word) ==
    word \in (CASE message = PermissionDeniedMessage -> {"permission", "camera"}
                [] message = NoDeviceMessage -> {"camera", "device"}
                [] message = AccessFailedMessage -> {"camera"}
                [] message = SwitchFailedMessage -> {"camera"}
                [] message = EnumerateFailedMessage -> {"device"}
                [] OTHER -> {})

\* A value handed to handleCameraError: whether it is a DOMException, whether
\* it is an Error, its name and its message (<<>> when the property is
\* missing).  The error state of useCamera is a plain object {type, message,
\* details}: neither a DOMException nor an Error, and without a name.
CameraErrorObject(message) ==
    [isDOMException |-> FALSE, isError |-> FALSE, name |-> <<>>,
     message |-> <<message>>]

\* handleCameraError(error), for a truthy error.
HandleCameraError(error) ==
    LET has(word) == error.message # <<>> /\ Includes(error.message[1], word)
        name == IF error.name = <<>> THEN "" ELSE error.name[1]
    IN
    IF error.isDOMException \/ name # ""
    THEN CASE name \in {"NotAllowedError", "PermissionDeniedError"} ->
                  [type |-> "permission", message |-> PermissionDeniedMessage]
           [] name \in {"NotFoundError", "DevicesNotFoundError"} ->
                  [type |-> "device", message |-> NoDeviceMessage]
           [] name \in {"NotReadableError", "TrackStartError"} ->
                  [type |-> "device", message |-> InUseMessage]
           [] name \in {"OverconstrainedError",
                        "ConstraintNotSatisfiedError"} ->
                  [type |-> "stream", message |-> ConstraintsMessage]
           [] name = "TypeError" ->
                  [type |-> "stream",
                   message |-> "Invalid constraints provided for camera."]
           [] OTHER ->
                  [type |-> "stream",
                   message |-> IF error.message = <<>>
                               THEN AccessFailedMessage
                               ELSE error.message[1]]
    ELSE IF has("detection") \/ has("model")
    THEN [type |-> "detection", message |-> error.message[1]]
    ELSE IF error.isError
    THEN [type |-> IF has("permission") THEN "permission"
                   ELSE IF has("device") \/ has("camera") THEN "device"
                   ELSE IF has("detection") \/ has("tensorflow")
                        THEN "detection"
                   ELSE "stream",
          message |-> error.message[1]]
    ELSE [type |-> "stream", message |-> "An unexpected error occurred"]

\* ------------------------------------------- useCamera: acquisition
\* The catch block of startCamera: the type and the message of the error
\* state for an error of that name.
ClassifyStartError(name) ==
    CASE name \in {"NotAllowedError", "PermissionDeniedError"} ->
             [type |-> "permission", message |-> PermissionDeniedMessage]
      [] name \in {"NotFoundError", "DevicesNotFoundError"} ->
             [type |-> "device", message |-> NoDeviceMessage]
      [] name \in {"NotReadableError", "TrackStartError"} ->
             [type |-> "device", message |-> InUseMessage]
      [] name \in {"OverconstrainedError", "ConstraintNotSatisfiedError"} ->
             [type |-> "stream", message |-> ConstraintsMessage]
      [] OTHER -> [type |-> "stream", message |-> AccessFailedMessage]

\* A commit of the states of useCamera inside Cam: the stream state becomes
\* the stream sid (0: null).  A changed stream runs the start/stop effect of
\* Cam again; an error set to an object (setError with a new object,
\* errorSet) runs the error effect of Cam, which formats the error state with
\* handleCameraError and passes the result to onError.
CameraCommitted(sid, active, error, errorSet) ==
    /\ stream' = (sid # 0)
    /\ streamOf' = sid
    /\ isActive' = active
    /\ cameraError' = IF error = <<>> THEN <<>> ELSE <<error[1].type>>
    /\ cameraErrorMessage' =
           IF error = <<>> THEN <<>> ELSE <<error[1].message>>
    /\ onErrorArg' =
           IF camMounted /\ errorSet /\ error # <<>>
           THEN <<HandleCameraError(CameraErrorObject(error[1].message))>>
           ELSE onErrorArg
    /\ IF camMounted /\ sid # streamOf
       THEN CamStartStop(isReady, sid # 0, managedLayers)
       ELSE UNCHANGED <<camRafQueue, camTimeout, camAnimationFrameRef>>
    /\ UNCHANGED <<camMounted, isReady, videoReady, hasOnFrame,
                   camLastFrameTimeRef, frameCounterRef, camTick, tickLog,
                   ctxSaves, ctxRestores, camCalls, camLastCall, camPrevCall,
                   camCover, camOutcome>>
    /\ UNCHANGED <<clockVars, fpVars, layerVars, tickVars, detVars, ptrVars,
                   lifeVars>>

\* The error state as the commit above takes it.
CurrentError ==
    IF cameraError = <<>> THEN <<>>
    ELSE <<[type |-> cameraError[1], message |-> cameraErrorMessage[1]]>>

\* A getUserMedia call awaited: the device it asks for, and whether the
\* devices state its caller closed over was not empty.
Awaited(device, known) == [device |-> device, known |-> known]

\* startCamera() of a render whose constraints name that device, up to its
\* await: a stream found in streamRef is stopped and cleared, and
\* getUserMedia is called.
StartCamera(device, known) ==
    /\ Len(requests) < MaxPending + 1
    /\ Len(obtained) + Len(requests) < MaxStreams
    /\ requests' = Append(requests, "start")
    /\ requestFor' = Append(requestFor, Awaited(device, known))
    /\ obtained' = StopStream(obtained, refOf)
    /\ refOf' = 0
    /\ streamRef' = FALSE
    /\ trackListened' = FALSE
    /\ stoppedByToggle' = FALSE
    /\ UNCHANGED <<deviceCount, sourceLost, currentDevice>>
    /\ CameraCommitted(IF refOf # 0 THEN 0 ELSE streamOf, isActive,
                       CurrentError, FALSE)

\* A render with another deviceId (or facingMode): the effect on deviceId and
\* facingMode runs, and restarts the camera with the constraints of that
\* render when the camera is active (autoStart is set); it returns otherwise.
CameraConstraintsChange(device) ==
    /\ camMounted
    /\ UNCHANGED noteVars
    /\ device # deviceId
    /\ deviceId' = device
    /\ IF isActive
       THEN StartCamera(device, TRUE)
       ELSE /\ UNCHANGED <<ucVars, sourceLost, obtained, refOf, requestFor,
                           currentDevice>>
            /\ CameraCommitted(streamOf, isActive, CurrentError, FALSE)

\* toggleCamera(): stops the stream when the camera is active and streamRef
\* holds one, and starts the camera otherwise.
ToggleCamera ==
    /\ camMounted
    /\ UNCHANGED noteVars
    /\ UNCHANGED deviceId
    /\ IF isActive /\ streamRef
       THEN /\ obtained' = StopStream(obtained, refOf)
            /\ refOf' = 0
            /\ streamRef' = FALSE
            /\ trackListened' = FALSE
            /\ stoppedByToggle' = TRUE
            /\ UNCHANGED <<requests, requestFor, deviceCount, sourceLost,
                           currentDevice>>
            /\ CameraCommitted(0, FALSE, CurrentError, FALSE)
       ELSE StartCamera(deviceId, TRUE)

\* devices[(currentIndex + 1) % devices.length], the index of a device that
\* is not in the list being -1.  The devices are numbered from 1.
NextDevice(current, count) ==
    IF current \in 1..count THEN (current % count) + 1 ELSE 1

\* switchCamera(), up to its await: with fewer than two devices it returns;
\* otherwise the tracks of the stream in streamRef are stopped (streamRef
\* and the stream state keep it) and getUserMedia is called for the next
\* device.
SwitchCamera ==
    /\ camMounted
    /\ UNCHANGED noteVars
    /\ deviceCount >= 2
    /\ Len(requests) < MaxPending + 1
    /\ Len(obtained) + Len(requests) < MaxStreams
    /\ requests' = Append(requests, "switch")
    /\ requestFor' =
           Append(requestFor,
                  Awaited(NextDevice(currentDevice, deviceCount), TRUE))
    /\ obtained' = StopStream(obtained, refOf)
    /\ trackListened' = FALSE
    /\ UNCHANGED <<streamRef, refOf, deviceCount, stoppedByToggle, sourceLost,
                   deviceId, currentDevice>>
    /\ CameraCommitted(streamOf, isActive, CurrentError, FALSE)

\* The sequence without its i-th element.
Without(seq, i) == SubSeq(seq, 1, i - 1) \o SubSeq(seq, i + 1, Len(seq))

\* The stream getUserMedia resolves with for the i-th request awaited.  After
\* an unmount the caller stops it at once.  Only startCamera adds the 'ended'
\* listener to the video track.
NewStream(i, mounted) ==
    [device |-> requestFor[i].device,
     state |-> IF mounted THEN "live" ELSE "stopped",
     listened |-> mounted /\ requests[i] = "start"]

\* getUserMedia resolves for the i-th request awaited.  After an unmount the
\* stream is stopped and dropped.  Otherwise it becomes the stream of
\* streamRef and of the stream state; what streamRef held is not looked at.
\* startCamera sets currentDevice when the devices it closed over were not
\* empty, switchCamera sets it to the device it asked for.
AcquireResolves(i) ==
    /\ i \in 1..Len(requests)
    /\ UNCHANGED noteVars
    /\ requests' = Without(requests, i)
    /\ requestFor' = Without(requestFor, i)
    /\ obtained' = Append(obtained, NewStream(i, camMounted))
    /\ UNCHANGED <<deviceCount, stoppedByToggle, deviceId>>
    /\ IF camMounted
       THEN /\ refOf' = Len(obtained) + 1
            /\ streamRef' = TRUE
            /\ trackListened' = (requests[i] = "start")
            /\ sourceLost' = FALSE
            /\ currentDevice' =
                   IF requests[i] = "switch" \/ requestFor[i].known
                   THEN requestFor[i].device
                   ELSE currentDevice
            /\ CameraCommitted(Len(obtained) + 1, TRUE, <<>>, FALSE)
       ELSE /\ UNCHANGED <<streamRef, refOf, trackListened, sourceLost,
                           currentDevice>>
            /\ CameraCommitted(streamOf, isActive, CurrentError, FALSE)

\* getUserMedia rejects for the i-th request awaited with an error of that
\* name: the catch block of startCamera (which clears streamRef and the
\* stream state without stopping anything) or of switchCamera (which only
\* sets the error).
AcquireRejects(i, name) ==
    /\ i \in 1..Len(requests)
    /\ UNCHANGED noteVars
    /\ requests' = Without(requests, i)
    /\ requestFor' = Without(requestFor, i)
    /\ UNCHANGED <<deviceCount, stoppedByToggle, sourceLost, obtained,
                   deviceId, currentDevice>>
    /\ IF ~camMounted
       THEN /\ UNCHANGED <<streamRef, refOf, trackListened>>
            /\ CameraCommitted(streamOf, isActive, CurrentError, FALSE)
       ELSE IF requests[i] = "start"
       THEN /\ streamRef' = FALSE
            /\ refOf' = 0
            /\ trackListened' = FALSE
            /\ CameraCommitted(0, FALSE, <<ClassifyStartError(name)>>, TRUE)
       ELSE /\ UNCHANGED <<streamRef, refOf, trackListened>>
            /\ CameraCommitted(streamOf, isActive,
                               <<[type |-> "device",
                                  message |-> SwitchFailedMessage]>>, TRUE)

\* The video track of the k-th stream obtained ends.  With the 'ended'
\* listener of startCamera on it, and the hook mounted, isActive, the stream
\* state and streamRef are cleared, whichever stream they hold.
TrackEnded(k) ==
    /\ k \in 1..Len(obtained)
    /\ UNCHANGED noteVars
    /\ obtained[k].state = "live"
    /\ obtained' = [obtained EXCEPT ![k].state = "ended"]
    /\ UNCHANGED <<requests, requestFor, deviceCount, stoppedByToggle,
                   deviceId, currentDevice>>
    /\ IF camMounted /\ obtained[k].listened
       THEN /\ streamRef' = FALSE
            /\ refOf' = 0
            /\ trackListened' = FALSE
            /\ sourceLost' = TRUE
            /\ CameraCommitted(0, FALSE, CurrentError, FALSE)
       ELSE /\ UNCHANGED <<streamRef, refOf, trackListened, sourceLost>>
            /\ CameraCommitted(streamOf, isActive, CurrentError, FALSE)

\* enumerateDevices() resolves with count video inputs (on mount and on a
\* 'devicechange' event): devices is set, and currentDevice too when
\* streamRef holds a stream, to the device of its track if that is listed.
EnumerateResolves(count) ==
    /\ camMounted
    /\ UNCHANGED noteVars
    /\ deviceCount' = count
    /\ currentDevice' =
           IF refOf = 0 THEN currentDevice
           ELSE IF obtained[refOf].device \in 1..count
                THEN obtained[refOf].device
                ELSE 0
    /\ UNCHANGED <<streamRef, trackListened, requests, stoppedByToggle,
                   sourceLost, obtained, refOf, deviceId, requestFor>>
    /\ CameraCommitted(streamOf, isActive, CurrentError, FALSE)

\* enumerateDevices() rejects: the catch block sets the error state.
EnumerateRejects ==
    /\ camMounted
    /\ UNCHANGED noteVars
    /\ UNCHANGED <<streamRef, trackListened, requests, deviceCount,
                   stoppedByToggle, sourceLost, obtained, refOf, deviceId,
                   requestFor, currentDevice>>
    /\ CameraCommitted(streamOf, isActive,
                       <<[type |-> "device",
                          message |-> EnumerateFailedMessage]>>, TRUE)

\* ------------------------------------------------------- initial states
\* No useFrameProcessor is in use.
FPIdle ==
    /\ fpMounted = FALSE
    /\ enabled = FALSE
    /\ lastFrameTimeRef = 0
    /\ frameCountRef = 0
    /\ isProcessingRef = FALSE
    /\ animationFrameRef = FALSE
    /\ rafQueue = EmptyQueue
    /\ inFlight = <<>>
    /\ fpStart = 0
    /\ fpCalls = 0
    /\ fpLastCall = None
    /\ fpPrevCall = None
    /\ fpCover = NoCover
    /\ fpOutcome = "none"
    /\ currentFPS = <<>>

\* No Cam is in use.
CamIdle ==
    /\ camMounted = FALSE
    /\ stream = FALSE
    /\ isReady = FALSE
    /\ videoReady = FALSE
    /\ hasOnFrame = FALSE
    /\ camLastFrameTimeRef = 0
    /\ frameCounterRef = 0
    /\ camAnimationFrameRef = FALSE
    /\ camRafQueue = EmptyQueue
    /\ camTimeout = <<>>
    /\ camTick = <<>>
    /\ tickLog = <<>>
    /\ ctxSaves = 0
    /\ ctxRestores = 0
    /\ camCalls = 0
    /\ camLastCall = None
    /\ camPrevCall = None
    /\ camCover = NoCover
    /\ camOutcome = "none"

\* No camera session, no detection and no pointer event yet.
CameraIdle ==
    /\ isActive = FALSE
    /\ cameraError = <<>>
    /\ sourceLost = FALSE

DetectionIdle ==
    /\ enableDetection = FALSE
    /\ detectionConfig = NoConfig
    /\ isRunning = FALSE
    /\ detections = <<>>
    /\ configRef = NoConfig
    /\ modelsLoadedRef = FALSE
    /\ initTimers = <<>>
    /\ detInterval = <<>>
    /\ detWanted = FALSE
    /\ lastConfig = NoConfig
    /\ detOutcome = "none"
    /\ tickContext = <<>>
    /\ detConsumed = FALSE

PointerIdle ==
    /\ observers = [onClick |-> FALSE, onHover |-> FALSE]
    /\ ptrEvent = <<>>
    /\ ptrCalls = <<>>

\* useCamera has requested nothing and obtained no stream.
AcquisitionIdle ==
    /\ streamRef = FALSE
    /\ trackListened = FALSE
    /\ requests = <<>>
    /\ deviceCount = 0
    /\ cameraErrorMessage = <<>>
    /\ stoppedByToggle = FALSE
    /\ onErrorArg = <<>>
    /\ obtained = <<>>
    /\ streamOf = 0
    /\ refOf = 0
    /\ deviceId = 1
    /\ requestFor = <<>>
    /\ currentDevice = 0

\* The lifecycle effect and the detection notification effect have not run;
\* there is no onDetection prop.
LifecycleIdle ==
    /\ lifeCleanup = <<>>
    /\ lifeLog = <<>>
    /\ tickRound = <<>>
    /\ onDetection = 0
    /\ detLog = <<>>

\* The hook after its first commit, at time 0, with either value of enabled.
InitFP ==
    /\ now = 0
    /\ targetFPS \in TargetRates
    /\ fpMounted = TRUE
    /\ enabled \in BOOLEAN
    /\ lastFrameTimeRef = 0
    /\ frameCountRef = 0
    /\ isProcessingRef = FALSE
    /\ animationFrameRef = enabled
    /\ rafQueue = IF enabled
                  THEN RequestAnimationFrame(EmptyQueue, [enabled |-> TRUE])
                  ELSE EmptyQueue
    /\ inFlight = <<>>
    /\ fpStart = 0
    /\ fpCalls = 0
    /\ fpLastCall = None
    /\ fpPrevCall = None
    /\ fpCover = NoCover
    /\ fpOutcome = "none"
    /\ currentFPS = <<>>
    /\ layers = <<>>
    /\ managedLayers = <<>>
    /\ CamIdle
    /\ CameraIdle
    /\ DetectionIdle
    /\ PointerIdle
    /\ AcquisitionIdle
    /\ LifecycleIdle

NextFP ==
    \/ \E en \in BOOLEAN : FPCommit(en)
    \/ FPUnmount
    \/ FPOpportunity
    \/ \E threw \in BOOLEAN : FPCallbackEnd(threw)
    \/ FPGetCurrentFPS
    \/ AdvanceTime

SpecFP == InitFP /\ [][NextFP]_vars

\* The hook given a targetFPS that is not positive, after its first commit
\* with enabled false: nothing is scheduled before enabled is set.
InitFPRate ==
    /\ now = 0
    /\ targetFPS \in {0, 0 - 20}
    /\ fpMounted = TRUE
    /\ enabled = FALSE
    /\ lastFrameTimeRef = 0
    /\ frameCountRef = 0
    /\ isProcessingRef = FALSE
    /\ animationFrameRef = FALSE
    /\ rafQueue = EmptyQueue
    /\ inFlight = <<>>
    /\ fpStart = 0
    /\ fpCalls = 0
    /\ fpLastCall = None
    /\ fpPrevCall = None
    /\ fpCover = NoCover
    /\ fpOutcome = "none"
    /\ currentFPS = <<>>
    /\ layers = <<>>
    /\ managedLayers = <<>>
    /\ CamIdle
    /\ CameraIdle
    /\ DetectionIdle
    /\ PointerIdle
    /\ AcquisitionIdle
    /\ LifecycleIdle

\* With a negative rate every opportunity is accepted, at any time: the runs
\* are followed up to MaxTicks ticks since the start.
NextFPRate ==
    \/ \E en \in BOOLEAN : FPCommit(en)
    \/ FPUnmount
    \/ frameCountRef < MaxTicks /\ FPOpportunity
    \/ \E threw \in BOOLEAN : FPCallbackEnd(threw)
    \/ AdvanceTime

SpecFPRate == InitFPRate /\ [][NextFPRate]_vars

\* The layers of the Cam runs explored: A below B unless B has no zIndex;
\* callbacks that throw, a hidden layer, a layer without onFrame.
CamLayers ==
    {[id |-> "A", zIndex |-> <<1>>, visible |-> <<>>,
      onFrame |-> "ok", render |-> "ok"],
     [id |-> "A", zIndex |-> <<1>>, visible |-> <<>>,
      onFrame |-> "throws", render |-> "ok"],
     [id |-> "A", zIndex |-> <<1>>, visible |-> <<>>,
      onFrame |-> "ok", render |-> "throws"],
     [id |-> "A", zIndex |-> <<1>>, visible |-> <<FALSE>>,
      onFrame |-> "ok", render |-> "ok"],
     [id |-> "B", zIndex |-> <<2>>, visible |-> <<>>,
      onFrame |-> "ok", render |-> "ok"],
     [id |-> "B", zIndex |-> <<2>>, visible |-> <<TRUE>>,
      onFrame |-> "ok", render |-> "throws"],
     [id |-> "B", zIndex |-> <<>>, visible |-> <<>>,
      onFrame |-> "absent", render |-> "ok"]}

\* The layers prop of the Cam runs explored: up to two layers with different
\* ids, in either order.
\* Cam after its first commit, at time 0: the camera has been requested.
InitCam ==
    /\ now = 0
    /\ targetFPS \in TargetRates
    /\ FPIdle
    /\ layers \in {ls \in {<<>>} \cup {<<l>> : l \in CamLayers}
                              \cup {<<l, m>> : l, m \in CamLayers} :
                       \A i, j \in 1..Len(ls) : ls[i].id = ls[j].id => i = j}
    /\ managedLayers = SortLayers(layers)
    /\ camMounted = TRUE
    /\ stream = FALSE
    /\ isReady = FALSE
    /\ videoReady = FALSE
    /\ hasOnFrame \in BOOLEAN
    /\ camLastFrameTimeRef = 0
    /\ frameCounterRef = 0
    /\ camAnimationFrameRef = FALSE
    /\ camRafQueue = EmptyQueue
    /\ camTimeout = <<>>
    /\ camTick = <<>>
    /\ tickLog = <<>>
    /\ ctxSaves = 0
    /\ ctxRestores = 0
    /\ camCalls = 0
    /\ camLastCall = None
    /\ camPrevCall = None
    /\ camCover = NoCover
    /\ camOutcome = "none"
    /\ CameraIdle
    /\ DetectionIdle
    /\ PointerIdle
    /\ AcquisitionIdle
    /\ LifecycleIdle

NextCam ==
    \/ \E str \in BOOLEAN : CamStreamChange(str)
    \/ \E type \in {"permission", "device"} : CamStartFailed(type)
    \/ CamLoadedMetadata
    \/ \E b \in BOOLEAN : CamVideoReadyState(b)
    \/ CamUnmount
    \/ CamTimerFires
    \/ CamOpportunity
    \/ CamTickEnd
    \/ AdvanceTime

SpecCam == InitCam /\ [][NextCam]_vars

\* The largest number of layers of the registries explored.
MaxLayers == 3

\* The layers of the registry runs explored: with and without zIndex, with a
\* zIndex below and above the 0 a missing one counts as.
RegistryLayers ==
    [id : LayerIds, zIndex : {<<>>, <<0 - 1>>, <<0>>, <<1>>},
     visible : {<<>>}, onFrame : {"absent"}, render : {"ok"}]

\* The updates explored: a new zIndex, with or without an id in the updates.
RegistryUpdates ==
    [zIndex : {<<>>, <<0 - 1>>, <<1>>}]
        \cup [zIndex : {<<0>>, <<2>>}, id : LayerIds]

RECURSIVE ListsUpTo(_, _)
ListsUpTo(S, n) ==
    IF n = 0 THEN {<<>>}
    ELSE ListsUpTo(S, n - 1)
            \cup {Append(ls, l) : ls \in ListsUpTo(S, n - 1), l \in S}

\* useLayer(initialLayers) on its own, for any list of initial layers.
InitLayer ==
    /\ now = 0
    /\ targetFPS \in TargetRates
    /\ FPIdle
    /\ CamIdle
    /\ layers \in ListsUpTo(RegistryLayers, MaxLayers - 1)
    /\ managedLayers = SortLayers(layers)
    /\ CameraIdle
    /\ DetectionIdle
    /\ PointerIdle
    /\ AcquisitionIdle
    /\ LifecycleIdle

NextLayer ==
    \/ \E l \in RegistryLayers : Len(layers) < MaxLayers /\ AddLayer(l)
    \/ \E id \in LayerIds : RemoveLayer(id)
    \/ \E id \in LayerIds, u \in RegistryUpdates : UpdateLayer(id, u)

SpecLayer == InitLayer /\ [][NextLayer]_vars

\* useDetection({config, enabled}) on its own after its first commit, at
\* time 0: with enabled true initializeDetection is waiting.
InitDetection ==
    /\ now = 0
    /\ targetFPS = 20
    /\ FPIdle
    /\ CamIdle
    /\ layers = <<>>
    /\ managedLayers = <<>>
    /\ CameraIdle
    /\ PointerIdle
    /\ AcquisitionIdle
    /\ LifecycleIdle
    /\ tickContext = <<>>
    /\ detConsumed = FALSE
    /\ enableDetection \in BOOLEAN
    /\ detectionConfig \in DetectionConfigs
    /\ isRunning = FALSE
    /\ detections = <<>>
    /\ configRef = detectionConfig
    /\ modelsLoadedRef = FALSE
    /\ initTimers = IF enableDetection THEN <<ModelLoadDelay>> ELSE <<>>
    /\ detInterval = <<>>
    /\ detWanted = enableDetection
    /\ lastConfig = detectionConfig
    /\ detOutcome = "none"

NextDetection ==
    \/ \E en \in BOOLEAN : DetEnabledCommit(en)
    \/ DetInitDone
    \/ DetStart
    \/ DetStop
    \/ \E cfg \in DetectionConfigs : DetUpdateConfig(cfg)
    \/ \E cfg \in DetectionConfigs : DetConfigProp(cfg)
    \/ \E conf \in MockConfidences, box \in MockBoxes :
           DetIntervalFires(conf, box)
    \/ DetAdvanceTime

SpecDetection == InitDetection /\ [][NextDetection]_vars

\* The layers of the pointer runs explored: interactive with both handlers,
\* interactive with onClick only, with handlers but not interactive, and
\* explicitly not interactive.
PointerLayers ==
    {[id |-> "A", zIndex |-> <<1>>, visible |-> <<>>, onFrame |-> "absent",
      render |-> "ok", interactive |-> <<TRUE>>, onClick |-> "ok",
      onHover |-> "ok"],
     [id |-> "A", zIndex |-> <<>>, visible |-> <<>>, onFrame |-> "absent",
      render |-> "ok", interactive |-> <<FALSE>>, onClick |-> "ok",
      onHover |-> "absent"],
     [id |-> "B", zIndex |-> <<2>>, visible |-> <<>>, onFrame |-> "absent",
      render |-> "ok", interactive |-> <<TRUE>>, onClick |-> "ok",
      onHover |-> "absent"],
     [id |-> "B", zIndex |-> <<0>>, visible |-> <<>>, onFrame |-> "absent",
      render |-> "ok", interactive |-> <<>>, onClick |-> "ok",
      onHover |-> "ok"]}

PointerLayerLists ==
    {<<>>} \cup {<<l>> : l \in PointerLayers}
        \cup {<<l, m>> : l, m \in PointerLayers}

\* The client points and the origins of the canvas rectangle explored: with
\* the origin <<5, 5>> the first point is inside the box of the mock
\* detection and the second is outside.
ClientPoints == {<<35, 35>>, <<205, 205>>}
CanvasOrigins == {<<0, 0>>, <<5, 5>>}
TouchLists == {<<>>} \cup {<<p>> : p \in ClientPoints}
                  \cup {<<<<35, 35>>, <<205, 205>>>>}

\* Cam after its first commit, at time 0, with detection enabled: the
\* camera has been requested and initializeDetection is waiting.
InitPointer ==
    /\ now = 0
    /\ targetFPS = 20
    /\ FPIdle
    /\ layers \in {ls \in PointerLayerLists :
                       \A i, j \in 1..Len(ls) : ls[i].id = ls[j].id => i = j}
    /\ managedLayers = SortLayers(layers)
    /\ camMounted = TRUE
    /\ stream = FALSE
    /\ isReady = FALSE
    /\ videoReady = FALSE
    /\ hasOnFrame = FALSE
    /\ camLastFrameTimeRef = 0
    /\ frameCounterRef = 0
    /\ camAnimationFrameRef = FALSE
    /\ camRafQueue = EmptyQueue
    /\ camTimeout = <<>>
    /\ camTick = <<>>
    /\ tickLog = <<>>
    /\ ctxSaves = 0
    /\ ctxRestores = 0
    /\ camCalls = 0
    /\ camLastCall = None
    /\ camPrevCall = None
    /\ camCover = NoCover
    /\ camOutcome = "none"
    /\ CameraIdle
    /\ tickContext = <<>>
    /\ detConsumed = FALSE
    /\ enableDetection = TRUE
    /\ detectionConfig = NoConfig
    /\ isRunning = FALSE
    /\ detections = <<>>
    /\ configRef = NoConfig
    /\ modelsLoadedRef = FALSE
    /\ initTimers = <<ModelLoadDelay>>
    /\ detInterval = <<>>
    /\ detWanted = TRUE
    /\ lastConfig = NoConfig
    /\ detOutcome = "none"
    /\ observers \in [onClick : BOOLEAN, onHover : BOOLEAN]
    /\ ptrEvent = <<>>
    /\ ptrCalls = <<>>
    /\ AcquisitionIdle
    /\ LifecycleIdle

NextPointer ==
    \/ DetInitDone
    \/ \E conf \in MockConfidences, box \in MockBoxes :
           DetIntervalFires(conf, box)
    \/ \E p \in ClientPoints, o \in CanvasOrigins : CanvasClick(p, o)
    \/ \E p \in ClientPoints, o \in CanvasOrigins : CanvasHover(p, o)
    \/ \E t \in TouchLists, o \in CanvasOrigins : CanvasTouch(t, o)
    \/ DetAdvanceTime

SpecPointer == InitPointer /\ [][NextPointer]_vars

\* Cam after its first commit, at time 0, with two layers and detection
\* enabled: the camera has been requested and initializeDetection is waiting.
InitCamDet ==
    /\ now = 0
    /\ targetFPS = 20
    /\ FPIdle
    /\ layers = <<[id |-> "B", zIndex |-> <<2>>, visible |-> <<>>,
                   onFrame |-> "ok", render |-> "ok"],
                  [id |-> "A", zIndex |-> <<1>>, visible |-> <<>>,
                   onFrame |-> "ok", render |-> "ok"]>>
    /\ managedLayers = SortLayers(layers)
    /\ camMounted = TRUE
    /\ stream = FALSE
    /\ isReady = FALSE
    /\ videoReady = FALSE
    /\ hasOnFrame = FALSE
    /\ camLastFrameTimeRef = 0
    /\ frameCounterRef = 0
    /\ camAnimationFrameRef = FALSE
    /\ camRafQueue = EmptyQueue
    /\ camTimeout = <<>>
    /\ camTick = <<>>
    /\ tickLog = <<>>
    /\ ctxSaves = 0
    /\ ctxRestores = 0
    /\ camCalls = 0
    /\ camLastCall = None
    /\ camPrevCall = None
    /\ camCover = NoCover
    /\ camOutcome = "none"
    /\ CameraIdle
    /\ tickContext = <<>>
    /\ detConsumed = FALSE
    /\ enableDetection = TRUE
    /\ detectionConfig = NoConfig
    /\ isRunning = FALSE
    /\ detections = <<>>
    /\ configRef = NoConfig
    /\ modelsLoadedRef = FALSE
    /\ initTimers = <<ModelLoadDelay>>
    /\ detInterval = <<>>
    /\ detWanted = TRUE
    /\ lastConfig = NoConfig
    /\ detOutcome = "none"
    /\ PointerIdle
    /\ AcquisitionIdle
    /\ LifecycleIdle

NextCamDet ==
    \/ \E str \in BOOLEAN : CamStreamChange(str)
    \/ CamLoadedMetadata
    \/ \E b \in BOOLEAN : CamVideoReadyState(b)
    \/ CamTimerFires
    \/ CamOpportunity
    \/ CamTickEnd
    \/ DetInitDone
    \/ \E conf \in MockConfidences, box \in MockBoxes :
           DetIntervalFires(conf, box)
    \/ DetAdvanceTime

SpecCamDet == InitCamDet /\ [][NextCamDet]_vars

\* Cam after its first commit with its useCamera, for one or two devices:
\* with autoStart the camera has been requested.  toggleCamera and
\* switchCamera are called as the hook returns them.
InitCamera ==
    /\ now = 0
    /\ targetFPS = 20
    /\ FPIdle
    /\ layers = <<>>
    /\ managedLayers = <<>>
    /\ camMounted = TRUE
    /\ stream = FALSE
    /\ isReady = FALSE
    /\ videoReady = FALSE
    /\ hasOnFrame = FALSE
    /\ camLastFrameTimeRef = 0
    /\ frameCounterRef = 0
    /\ camAnimationFrameRef = FALSE
    /\ camRafQueue = EmptyQueue
    /\ camTimeout = <<>>
    /\ camTick = <<>>
    /\ tickLog = <<>>
    /\ ctxSaves = 0
    /\ ctxRestores = 0
    /\ camCalls = 0
    /\ camLastCall = None
    /\ camPrevCall = None
    /\ camCover = NoCover
    /\ camOutcome = "none"
    /\ CameraIdle
    /\ DetectionIdle
    /\ PointerIdle
    /\ LifecycleIdle
    /\ streamRef = FALSE
    /\ trackListened = FALSE
    /\ requests = <<"start">>
    /\ deviceCount \in {1, 2}
    /\ cameraErrorMessage = <<>>
    /\ stoppedByToggle = FALSE
    /\ onErrorArg = <<>>
    /\ obtained = <<>>
    /\ streamOf = 0
    /\ refOf = 0
    /\ deviceId = 1
    /\ requestFor = [i \in 1..Len(requests) |-> Awaited(deviceId, FALSE)]
    /\ currentDevice = 0

NextCamera ==
    \/ \E device \in {1, 2} : CameraConstraintsChange(device)
    \/ ToggleCamera
    \/ SwitchCamera
    \/ \E i \in 1..(MaxPending + 1) : AcquireResolves(i)
    \/ \E i \in 1..(MaxPending + 1),
          name \in {"NotAllowedError", "NotFoundError", "NotReadableError",
                    "AbortError"} :
           AcquireRejects(i, name)
    \/ \E k \in 1..MaxStreams : TrackEnded(k)
    \/ \E count \in 1..2 : EnumerateResolves(count)
    \/ EnumerateRejects
    \/ CamUnmount

SpecCamera == InitCamera /\ [][NextCamera]_vars

\* Cam with one layer, under a host that keeps granting what is pending: a
\* due start timer fires, a pending animation frame request is served, a
\* tick in progress completes, and time passes.  loadedmetadata fires once.
InitCamLive ==
    /\ InitCam
    /\ targetFPS = 20
    /\ hasOnFrame = FALSE
    /\ layers = <<[id |-> "A", zIndex |-> <<1>>, visible |-> <<>>,
                   onFrame |-> "ok", render |-> "ok"]>>

NextCamLive ==
    \/ \E str \in BOOLEAN : CamStreamChange(str)
    \/ ~isReady /\ CamLoadedMetadata
    \/ \E b \in BOOLEAN : CamVideoReadyState(b)
    \/ CamTimerFires
    \/ CamOpportunity
    \/ CamTickEnd
    \/ AdvanceTime

SpecCamLive ==
    /\ InitCamLive
    /\ [][NextCamLive]_vars
    /\ WF_vars(CamTimerFires)
    /\ WF_vars(CamOpportunity)
    /\ WF_vars(CamTickEnd)
    /\ WF_vars(AdvanceTime)

\* The layers of the registry of the Cam runs explored, with lifecycle
\* callbacks: A above B, B hidden at first.
LifecycleLayers ==
    {[id |-> "A", zIndex |-> <<1>>, visible |-> <<>>, onFrame |-> "ok",
      render |-> "ok", onMount |-> "ok", onUnmount |-> "ok"],
     [id |-> "B", zIndex |-> <<>>, visible |-> <<FALSE>>, onFrame |-> "ok",
      render |-> "ok", onMount |-> "ok", onUnmount |-> "ok"]}

\* The updates explored: the layer is shown or hidden.
VisibilityUpdates == {[visible |-> <<TRUE>>], [visible |-> <<FALSE>>]}

\* Cam after its first commit, at time 0, with one or both of these layers:
\* the camera has been requested.  addLayer, removeLayer and updateLayer of
\* Cam's useLayer are called at any time, also from inside a layer callback
\* of a tick.  The one stream fires loadedmetadata once.
InitCamReg ==
    /\ now = 0
    /\ targetFPS = 20
    /\ FPIdle
    /\ layers \in {ls \in {<<l>> : l \in LifecycleLayers}
                              \cup {<<l, m>> : l, m \in LifecycleLayers} :
                       \A i, j \in 1..Len(ls) : ls[i].id = ls[j].id => i = j}
    /\ managedLayers = SortLayers(layers)
    /\ camMounted = TRUE
    /\ stream = FALSE
    /\ isReady = FALSE
    /\ videoReady = FALSE
    /\ hasOnFrame = FALSE
    /\ camLastFrameTimeRef = 0
    /\ frameCounterRef = 0
    /\ camAnimationFrameRef = FALSE
    /\ camRafQueue = EmptyQueue
    /\ camTimeout = <<>>
    /\ camTick = <<>>
    /\ tickLog = <<>>
    /\ ctxSaves = 0
    /\ ctxRestores = 0
    /\ camCalls = 0
    /\ camLastCall = None
    /\ camPrevCall = None
    /\ camCover = NoCover
    /\ camOutcome = "none"
    /\ CameraIdle
    /\ DetectionIdle
    /\ PointerIdle
    /\ AcquisitionIdle
    /\ LifecycleIdle

\* The clock advances in these runs, between two callbacks of the host.
RegAdvanceTime ==
    /\ camTick = <<>>
    /\ now + RegTimeStep <= RegMaxTime
    /\ now' = now + RegTimeStep
    /\ UNCHANGED <<targetFPS, fpVars, layerVars, camVars, tickVars, sessVars,
                   detVars, ptrVars, ucVars, mediaVars, noteVars, lifeVars>>

\* A commit is flushed between two ticks, or from a callback of the tick in
\* progress: then inside the loop over the layers, after a callback has run.
BetweenCallbacks == camTick = <<>> \/ tickLog # <<>>

NextCamReg ==
    \/ CamStreamChange(TRUE)
    \/ ~isReady /\ CamLoadedMetadata
    \/ CamVideoReadyState(TRUE)
    \/ CamTimerFires
    \/ CamRoundOpportunity
    \/ CamRoundStep
    \/ CamTickEnd
    \/ BetweenCallbacks /\ CamUnmount
    \/ BetweenCallbacks /\ \E l \in LifecycleLayers : AddLayer(l)
    \/ BetweenCallbacks /\ \E id \in LayerIds : RemoveLayer(id)
    \/ BetweenCallbacks /\ \E id \in LayerIds, u \in VisibilityUpdates :
                               UpdateLayer(id, u)
    \/ RegAdvanceTime

SpecCamReg == InitCamReg /\ [][NextCamReg]_vars

\* Either clock: useFrameProcessor on its own, or Cam.
\* The layers of the Cam runs with detection notifications: A and B, drawn
\* below A, have an onDetection callback.
DetectionLayers ==
    {[id |-> "A", zIndex |-> <<1>>, visible |-> <<>>, onFrame |-> "ok",
      render |-> "ok", onDetection |-> "ok"],
     [id |-> "B", zIndex |-> <<>>, visible |-> <<>>, onFrame |-> "ok",
      render |-> "ok", onDetection |-> "ok"]}

\* Cam after its first commit, at time 0, with layer A, an onDetection prop
\* and detection enabled: the camera has been requested and
\* initializeDetection is waiting.  Layers are registered, removed and
\* hidden, the prop changes between two functions and loadedmetadata fires
\* between the callbacks of the producer.
InitCamNotify ==
    /\ now = 0
    /\ targetFPS = 20
    /\ FPIdle
    /\ layers = <<CHOOSE l \in DetectionLayers : l.id = "A">>
    /\ managedLayers = SortLayers(layers)
    /\ camMounted = TRUE
    /\ stream = FALSE
    /\ isReady = FALSE
    /\ videoReady = FALSE
    /\ hasOnFrame = FALSE
    /\ camLastFrameTimeRef = 0
    /\ frameCounterRef = 0
    /\ camAnimationFrameRef = FALSE
    /\ camRafQueue = EmptyQueue
    /\ camTimeout = <<>>
    /\ camTick = <<>>
    /\ tickLog = <<>>
    /\ ctxSaves = 0
    /\ ctxRestores = 0
    /\ camCalls = 0
    /\ camLastCall = None
    /\ camPrevCall = None
    /\ camCover = NoCover
    /\ camOutcome = "none"
    /\ CameraIdle
    /\ tickContext = <<>>
    /\ detConsumed = FALSE
    /\ enableDetection = TRUE
    /\ detectionConfig = NoConfig
    /\ isRunning = FALSE
    /\ detections = <<>>
    /\ configRef = NoConfig
    /\ modelsLoadedRef = FALSE
    /\ initTimers = <<ModelLoadDelay>>
    /\ detInterval = <<>>
    /\ detWanted = TRUE
    /\ lastConfig = NoConfig
    /\ detOutcome = "none"
    /\ PointerIdle
    /\ AcquisitionIdle
    /\ lifeCleanup = <<>>
    /\ lifeLog = <<>>
    /\ tickRound = <<>>
    /\ onDetection = 1
    /\ detLog = <<>>

NextCamNotify ==
    \/ CamStreamChange(TRUE)
    \/ CamLoadedMetadata
    \/ \E observer \in {1, 2} : CamObserverChange(observer)
    \/ \E l \in DetectionLayers : AddLayer(l)
    \/ \E id \in LayerIds : RemoveLayer(id)
    \/ \E id \in LayerIds : UpdateLayer(id, [visible |-> <<FALSE>>])
    \/ DetInitDone
    \/ \E conf \in MockConfidences, box \in MockBoxes :
           DetIntervalFires(conf, box)
    \/ DetAdvanceTime

SpecCamNotify == InitCamNotify /\ [][NextCamNotify]_vars

Init == InitFP \/ InitCam
Next == NextFP \/ NextCam
Spec == Init /\ [][Next]_vars

\* ============================================================== claims
\* The interval of the configured rate.
Interval == TargetFrameTime(targetFPS)

\* useFrameProcessor's clock is started and not stopped.
FPRunning == fpMounted /\ enabled

\* A step the host's call of useFrameProcessor's processFrame takes when the
\* timing check or the in-flight check skips the frame: nothing but the
\* request changes, and one request replaces the one that fired.
FPOnlyReschedules ==
    /\ inFlight' = inFlight
    /\ isProcessingRef' = isProcessingRef
    /\ fpCalls' = fpCalls
    /\ lastFrameTimeRef' = lastFrameTimeRef
    /\ frameCountRef' = frameCountRef
    /\ Pending(rafQueue') = Pending(rafQueue)

\* C1: at most one invocation of onFrame is in flight in every reachable
\* state, and a scheduling opportunity that arrives while one is in flight
\* invokes nothing and only re-schedules.
C1_AtMostOneInFlight ==
    /\ [](Len(inFlight) <= 1)
    /\ [][(inFlight # <<>> /\ FPOpportunity) => FPOnlyReschedules]_vars

\* C1 witness: an opportunity arrived at least an interval after the last
\* tick while onFrame was in flight, and was skipped.
C1_Witness == fpOutcome = "busy" /\ Len(inFlight) = 1

\* C2 as claimed: while the clock runs, the number of accepted ticks differs
\* from T * R by at most one tick, T the time since the start (both sides
\* multiplied by the interval).
C2_WithinOneTickOfRate ==
    FPRunning =>
        /\ (now - fpStart) - fpCalls * Interval <= Interval
        /\ fpCalls * Interval - (now - fpStart) <= Interval

\* C2 amended: the number of accepted ticks never exceeds T * R, T measured
\* from the origin of the last-tick timestamp (the start of useFrameProcessor,
\* time 0 in Cam), and it is at least the length of any run of consecutive
\* interval windows that each had an opportunity reaching the timing check
\* with no callback in flight; it equals the number of whole intervals in T
\* when every window had one.
C2_RateBounds ==
    /\ fpCover.run <= fpCalls
    /\ fpCalls <= Window(now, fpStart, Interval)
    /\ camCover.run <= camCalls
    /\ camCalls <= Window(now, 0, Interval)

\* C2 witness: three windows in a row had an opportunity and the count is
\* the number of whole intervals since the start.
C2_Witness ==
    /\ fpCover.run >= 3
    /\ fpCalls = Window(now, fpStart, Interval)

C4_EarlyOpportunityReschedules ==
    [][/\ (FPOpportunity /\ now - lastFrameTimeRef < Interval)
            => FPOnlyReschedules
       /\ (CamOpportunity /\ now - camLastFrameTimeRef < Interval)
            => /\ camTick' = camTick
               /\ camCalls' = camCalls
               /\ camLastFrameTimeRef' = camLastFrameTimeRef
               /\ frameCounterRef' = frameCounterRef
               /\ Pending(camRafQueue') = Pending(camRafQueue)]_vars

\* C5 as claimed: once the clock is stopped (enabled false or unmounted) the
\* tick callback is not invoked any more.
C5_NoTickAfterStop ==
    [][fpCalls' = fpCalls + 1 => FPRunning]_vars

\* The order key of a layer: its zIndex, a missing one counting as 0.
OrderKey(layer) == IF Len(layer.zIndex) = 0 THEN 0 ELSE layer.zIndex[1]

\* The layers at positions i and j of the registry: i is drawn before j.
DrawnBefore(i, j) ==
    \/ OrderKey(layers[i]) < OrderKey(layers[j])
    \/ OrderKey(layers[i]) = OrderKey(layers[j]) /\ i < j

\* The positions of the visible layers.
VisiblePositions == {i \in 1..Len(layers) : layers[i].visible # <<FALSE>>}

\* The callbacks a layer has, onFrame first.
CallsOf(layer, frame) ==
    (IF layer.onFrame = "absent" THEN <<>>
     ELSE <<<<layer.id, "onFrame", frame>>>>)
    \o (IF layer.render = "absent" THEN <<>>
        ELSE <<<<layer.id, "render", frame>>>>)

\* The calls of the layers at the positions P, lowest drawn first.
RECURSIVE CallsInOrder(_, _)
CallsInOrder(P, frame) ==
    IF P = {} THEN <<>>
    ELSE LET first == CHOOSE i \in P : \A j \in P \ {i} : DrawnBefore(i, j)
         IN CallsOf(layers[first], frame)
                \o CallsInOrder(P \ {first}, frame)

\* C6 as claimed: in every accepted tick the callbacks run in ascending
\* order of the layers, onFrame then render for each visible layer, and the
\* top-level onFrame observer, if configured, runs once after them with the
\* frame of the tick: that is the log of the tick once processFrame is left.
C6_CallbackOrder ==
    (camOutcome \in {"done", "threw"}) =>
        tickLog = CallsInOrder(VisiblePositions, frameCounterRef)
                  \o (IF hasOnFrame
                      THEN <<<<TopLevel, "onFrame", frameCounterRef>>>>
                      ELSE <<>>)

\* The entries of the log of the tick.
Logged == {tickLog[k] : k \in 1..Len(tickLog)}

\* C7 as claimed: when a callback of a layer throws in a tick, every visible
\* layer after it in order still has its onFrame and render invoked in that
\* tick.
C7_LaterLayersStillRun ==
    (camTick # <<>> /\ camTick[1].failed # <<>>) =>
        \A i, j \in VisiblePositions :
            (layers[i].id = camTick[1].failed[1] /\ DrawnBefore(i, j)) =>
                \A k \in 1..Len(CallsOf(layers[j], camTick[1].frame)) :
                    CallsOf(layers[j], camTick[1].frame)[k] \in Logged

\* C8 as claimed: after a tick in which a layer threw, with the pipeline
\* still started, the next tick is scheduled.
C8_NextTickScheduled ==
    (camOutcome = "threw" /\ camMounted /\ stream /\ isReady) =>
        Pending(camRafQueue) + Len(camTimeout) > 0

\* C9 as claimed: at the end of every tick the number of ctx.save() calls
\* equals the number of ctx.restore() calls.
C9_SaveRestoreBalanced ==
    camTick = <<>> => ctxSaves = ctxRestores

\* The view lists the registered layers by ascending zIndex (a missing one
\* counting as 0), layers with equal zIndex in the order of registration: it
\* is the registry rearranged by a permutation p that puts i before j only
\* if i is drawn before j.
IsOrderedView(view) ==
    /\ Len(view) = Len(layers)
    /\ \E p \in [1..Len(layers) -> 1..Len(layers)] :
          /\ \A k \in 1..Len(layers) : view[k] = layers[p[k]]
          /\ \A k, m \in 1..Len(layers) : k < m => DrawnBefore(p[k], p[m])

\* C10: the ordered view the registry returns, and the order a tick derives
\* from it, list the registered layers by ascending zIndex (missing: 0), ties
\* in registration order; and a step that leaves the registry as it is leaves
\* the view as it is.
C10_OrderedView ==
    /\ [](IsOrderedView(managedLayers)
            /\ IsOrderedView(SortLayers(managedLayers)))
    /\ [][layers' = layers => managedLayers' = managedLayers]_vars

\* C10 witness: three layers, registered in an order that is not the drawing
\* order, two of them tied, one without zIndex above one with a negative one.
C10_Witness ==
    /\ Len(layers) = 3
    /\ managedLayers # layers
    /\ \E i, j \in 1..3 : i < j /\ OrderKey(layers[i]) = OrderKey(layers[j])
    /\ \E i, j \in 1..3 :
          layers[i].zIndex = <<>> /\ layers[j].zIndex = <<0 - 1>> /\ i < j

\* C17: while detection is disabled (the last request was the enabled prop
\* going false or stopDetection), detections is the empty batch, so no batch
\* has been published since; under every interleaving with the model
\* initialisation and the timers of the producer.
C17_DisabledYieldsEmpty == ~detWanted => detections = <<>>

\* The threshold of a config as the claim reads it: faces.minConfidence,
\* else objects.minConfidence, else 0.5.
ClaimedThreshold(cfg) ==
    IF cfg.faces # <<>> THEN cfg.faces[1]
    ELSE IF cfg.objects # <<>> THEN cfg.objects[1]
    ELSE 50

\* C19: every batch the producer publishes holds only detections whose
\* confidence is at least the threshold of the last config given (by
\* updateConfig or as a new config prop), and giving a config leaves the
\* batch already published unchanged.
C19_ReconfigurationNextBatch ==
    /\ [][(detOutcome' = "published" /\ detections' # detections) =>
             \A i \in 1..Len(detections') :
                 detections'[i].confidence >= ClaimedThreshold(lastConfig)]_vars
    /\ [][lastConfig' # lastConfig => detections' = detections]_vars

\* The handler prop a kind of pointer event is dispatched to.
HandlerOf(kind) == IF kind = "hover" THEN "onHover" ELSE "onClick"

\* The positions in the ordered view of the layers that claim a point for a
\* handler: interactive layers that have the handler (no layer has a hit
\* test of its own, so such a layer claims every point of the canvas).
Claimers(handler) ==
    {i \in 1..Len(managedLayers) :
        /\ managedLayers[i].interactive = <<TRUE>>
        /\ managedLayers[i][handler] # "absent"}

Topmost(S) == CHOOSE i \in S : \A j \in S : j <= i

IsLayerCall(call) == call[1] # TopLevel

\* C12: a click or hover at a point is dispatched to at most one layer, and
\* when layers claim the point it is dispatched to the topmost of them only.
C12_AtMostOneLayer ==
    (ptrEvent # <<>> /\ ptrEvent[1].point # <<>>) =>
        LET handler == HandlerOf(ptrEvent[1].kind)
            layerCalls == SelectSeq(ptrCalls, IsLayerCall)
        IN /\ Len(layerCalls) <= 1
           /\ Claimers(handler) # {} =>
                 /\ Len(layerCalls) = 1
                 /\ layerCalls[1][1] =
                        managedLayers[Topmost(Claimers(handler))].id

\* C13: a click at a point inside the bounding box of a detection of the
\* batch current at the click delivers an event that carries that detection.
C13_ClickCarriesDetection ==
    (ptrEvent # <<>> /\ ptrEvent[1].kind = "click") =>
        \A i \in 1..Len(ptrCalls) :
            LET event == ptrCalls[i][3]
                found == FindDetectionAtPoint(event.x, event.y,
                                              ptrEvent[1].detections)
            IN found # <<>> => event.detection = found

C11_UniqueIds ==
    /\ [](\A i, j \in 1..Len(layers) : layers[i].id = layers[j].id => i = j)
    /\ [][Len(layers') > Len(layers) =>
             /\ Len(layers') = Len(layers) + 1
             /\ SubSeq(layers', 1, Len(layers)) = layers
             /\ \A i \in 1..Len(layers) :
                   layers[i].id # layers'[Len(layers')].id]_vars

C16_NoUnconsumedDiscard ==
    [][(detections # <<>> /\ detections' # detections) => detConsumed]_vars

\* C18: the arrival of a detection batch leaves the scheduled tick as it
\* is: the pending animation-frame requests and the start timer are
\* unchanged by the step that publishes the batch.
C18_ArrivalKeepsSchedule ==
    [][detections' # detections =>
          (camRafQueue' = camRafQueue /\ camTimeout' = camTimeout)]_vars

\* C20: once the video track has ended, and until a stream is delivered
\* again, no tick is accepted and the camera session reads Error (an error
\* is recorded and the session is not active).
C20_DisconnectReadsError ==
    /\ [](sourceLost => (cameraError # <<>> /\ ~isActive))
    /\ [][(sourceLost /\ sourceLost') => camCalls' = camCalls]_vars

\* The camera session read from the state of useCamera: a getUserMedia call
\* awaited is Requesting, isActive is Active, an error set is Error, a stream
\* stopped by toggleCamera is Stopped, and nothing of these is Idle.
Session ==
    IF requests # <<>> THEN "Requesting"
    ELSE IF isActive THEN "Active"
    ELSE IF cameraError # <<>> THEN "Error"
    ELSE IF stoppedByToggle THEN "Stopped"
    ELSE "Idle"

SessionAfter ==
    IF requests' # <<>> THEN "Requesting"
    ELSE IF isActive' THEN "Active"
    ELSE IF cameraError' # <<>> THEN "Error"
    ELSE IF stoppedByToggle' THEN "Stopped"
    ELSE "Idle"

ClaimedTransitions ==
    {<<"Idle", "Requesting">>, <<"Requesting", "Active">>,
     <<"Active", "Error">>, <<"Active", "Stopped">>,
     <<"Active", "Requesting">>, <<"Error", "Requesting">>}

\* C21: the camera session only moves along Idle -> Requesting -> Active ->
\* (Error | Stopped), Active -> Requesting and Error -> Requesting.
C21_SessionTransitions ==
    [][SessionAfter # Session =>
           <<Session, SessionAfter>> \in ClaimedTransitions]_vars

\* C30: when camera acquisition fails, the error Cam passes to onError has
\* the type of the error state of useCamera (permission, device or stream).
C30_ErrorTypeKept ==
    (cameraError # <<>> /\ onErrorArg # <<>>) =>
        onErrorArg[1].type = cameraError[1]

\* The camera session is Active with a live stream and the video source has
\* signalled readiness (loadedmetadata handled, enough data to draw).
ActiveAndReady == camMounted /\ isActive /\ stream /\ isReady /\ videoReady

C23_SkippedTickResumes ==
    (camOutcome = "notReady" /\ ActiveAndReady
        /\ now + StartDelay + TargetFrameTime(targetFPS) <= MaxTime)
    ~> (camTick # <<>> \/ ~ActiveAndReady)

\* C27: updateLayer(id, changes) merges the changes into the layer
\* registered under id and keeps its id whatever id the changes carry; the
\* number of layers, their ids, their registration order and every other
\* layer stay as they were; for an id that is not registered the registry
\* is left unchanged.
C27_UpdateMergesKeepsId ==
    [][\A id \in LayerIds, u \in RegistryUpdates :
          UpdateLayer(id, u) =>
              /\ Len(layers') = Len(layers)
              /\ \A i \in 1..Len(layers) :
                    /\ layers'[i].id = layers[i].id
                    /\ layers[i].id # id => layers'[i] = layers[i]
                    /\ layers[i].id = id =>
                          \A f \in DOMAIN layers[i] \ {"id"} :
                              layers'[i][f] = IF f \in DOMAIN u THEN u[f]
                                              ELSE layers[i][f]
              /\ ~HasLayer(layers, id) => layers' = layers]_vars

\* Two layers are registered and one has the zIndex that only an update
\* carrying an id gives.
C27_Witness ==
    /\ Len(layers) >= 2
    /\ \E i \in 1..Len(layers) : layers[i].zIndex = <<2>>

\* The callbacks the layers of a list receive in a tick, in the order of the
\* list, up to a callback that throws.
RoundLog(ls, frame) == RunLayers(SortLayers(ls), frame, NoCalls).log

\* The layer loop of the tick in progress has ended.
RoundEnded ==
    /\ camTick # <<>>
    /\ tickRound # <<>>
    /\ \/ camTick[1].failed # <<>>
       \/ tickRound[1].next > Len(tickRound[1].sorted)

\* C24: a tick iterates the ordered layers taken at the start of its layer
\* round: an addLayer, removeLayer or updateLayer during the round leaves
\* the layers the round iterates as they are, and at its end the callbacks
\* invoked are those of the layers of its start, in their order.
C24_StableSnapshot ==
    /\ [][(tickRound # <<>> /\ tickRound' # <<>>) =>
              RoundLayers(tickRound'[1]) = RoundLayers(tickRound[1])]_vars
    /\ [](RoundEnded =>
              tickLog = RoundLog(tickRound[1].sorted, camTick[1].frame))

\* The layer round of a tick has ended with callbacks invoked, and the
\* registry was changed during the round.
C24_Witness ==
    /\ RoundEnded
    /\ tickLog # <<>>
    /\ SortLayers(managedLayers) # tickRound[1].sorted

\* The number of times a lifecycle call occurs in a log.
Count(log, call) == Cardinality({k \in 1..Len(log) : log[k] = call})

\* C25: registering a layer whose id is not yet registered invokes the
\* onMount of that layer exactly once in the same step, also before the
\* source is ready.
C25_RegisterMountsAtOnce ==
    [][\A l \in LifecycleLayers :
          (~HasLayer(layers, l.id) /\ AddLayer(l)) =>
              Count(lifeLog', <<l.id, "onMount">>) = 1]_vars

\* C26: removeLayer(id) for a registered (and mounted) layer invokes its
\* onUnmount exactly once and leaves the registry without it; for an id that
\* is not registered the registry is unchanged and no onMount or onUnmount
\* is invoked.
C26_RemoveUnmountsOnce ==
    [][\A id \in LayerIds :
          RemoveLayer(id) =>
              IF HasLayer(layers, id)
              THEN /\ ~HasLayer(layers', id)
                   /\ lifeCleanup # <<>> =>
                          Count(lifeLog', <<id, "onUnmount">>) = 1
              ELSE layers' = layers /\ lifeLog' = <<>>]_vars

\* The registered layer with that id.
LayerOf(id) ==
    layers[CHOOSE i \in 1..Len(layers) : layers[i].id = id]

C29_VisibilityGates ==
    camTick # <<>> =>
        \A i \in 1..Len(layers) :
            IF layers[i].visible = <<FALSE>>
            THEN \A k \in 1..Len(tickLog) : tickLog[k][1] # layers[i].id
            ELSE camTick[1].failed # <<layers[i].id>> =>
                     \A k \in 1..Len(CallsOf(layers[i], camTick[1].frame)) :
                         CallsOf(layers[i], camTick[1].frame)[k] \in Logged

\* C40: an error thrown by onFrame is contained.  The step in which onFrame
\* ends, by returning or by throwing, clears the in-flight flag and adds
\* exactly one request to the host's queue; the flag is never set while no
\* invocation is in flight, that is whenever control is with the host; and
\* the opportunity that follows a throw at least one interval after the last
\* accepted tick is accepted.
C40_ThrowContained ==
    /\ [](inFlight = <<>> => ~isProcessingRef)
    /\ [][fpOutcome' \in {"threw", "returned"} /\ fpOutcome' # fpOutcome =>
              /\ ~isProcessingRef'
              /\ Pending(rafQueue') = Pending(rafQueue) + 1]_vars
    /\ [][(fpOutcome = "threw" /\ FPOpportunity
              /\ now - lastFrameTimeRef >= Interval) =>
              (fpCalls' = fpCalls + 1 /\ fpOutcome' = "accepted")]_vars

\* C40 witness: onFrame threw in the second tick since the start; the flag is
\* clear and the one request the failing invocation issued is pending.
C40_Witness ==
    /\ fpOutcome = "threw"
    /\ fpCalls >= 2
    /\ inFlight = <<>>
    /\ ~isProcessingRef
    /\ Pending(rafQueue) = 1

\* The streams obtained.
Streams == 1..Len(obtained)

\* C31 as claimed: no acquired stream is leaked.  Once no getUserMedia call
\* is awaited, every stream obtained other than the current one (the stream
\* state, which streamRef holds too) has no live track, and after the unmount
\* no stream obtained has a live track.
C31_NoStreamLeaked ==
    requests = <<>> =>
        \A k \in Streams :
            (~camMounted \/ k \notin {streamOf, refOf}) =>
                obtained[k].state # "live"

\* C32 as claimed: a change of the requested device is always honoured.  A
\* step that changes the deviceId prop adds a getUserMedia call for the new
\* device, also while an earlier call is awaited; and once no call is awaited,
\* a current stream that startCamera obtained (it has the 'ended' listener)
\* is a stream of the device the deviceId prop names.
C32_DeviceChangeHonoured ==
    /\ [][deviceId' # deviceId =>
              /\ Len(requests') = Len(requests) + 1
              /\ requestFor'[Len(requestFor')].device = deviceId']_vars
    /\ []((camMounted /\ requests = <<>> /\ streamOf # 0
             /\ obtained[streamOf].listened) =>
              obtained[streamOf].device = deviceId)

\* C38 as claimed: the states of useCamera are consistent.  isActive is set
\* only while the stream state and streamRef hold a stream whose tracks the
\* hook has not stopped, and the error state is set only while isActive is
\* not.
C38_StateConsistent ==
    /\ isActive =>
           /\ streamOf # 0
           /\ refOf = streamOf
           /\ obtained[streamOf].state # "stopped"
    /\ cameraError # <<>> => ~isActive

\* The last-tick timestamp after a tick accepted at time now with the
\* previous timestamp last, as the accumulator policy gives it.
Advanced(last) == last + (now - last) - ((now - last) % Interval)

\* The step in which useFrameProcessor, or Cam, accepts a tick.
FPAccepts == fpCalls' = fpCalls + 1
CamAccepts == camCalls' = camCalls + 1

\* What either clock does when it accepts a tick: at least one interval has
\* passed since the last-tick timestamp, the timestamp advances by the
\* elapsed time less its remainder, and it is then less than one interval
\* behind the time of the tick.
AccumulatorPolicy ==
    /\ FPAccepts =>
           /\ now - lastFrameTimeRef >= Interval
           /\ lastFrameTimeRef' = Advanced(lastFrameTimeRef)
           /\ now - lastFrameTimeRef' \in 0..(Interval - 1)
           /\ (lastFrameTimeRef' - fpStart) % Interval = 0
    /\ CamAccepts =>
           /\ now - camLastFrameTimeRef >= Interval
           /\ camLastFrameTimeRef' = Advanced(camLastFrameTimeRef)
           /\ now - camLastFrameTimeRef' \in 0..(Interval - 1)

\* C35 as claimed: the accumulator policy, and the last-tick timestamp
\* differs from the time the clock was started by a whole multiple of the
\* interval, in Cam as in useFrameProcessor: in Cam, whose accepted ticks
\* move the timestamp by whole intervals, from the moment the start timer
\* issues the first request of the clock.
C35_MultipleFromStart ==
    [][/\ AccumulatorPolicy
       /\ CamTimerFires => (now - camLastFrameTimeRef) % Interval = 0]_vars

\* C35 amended: the accumulator policy, and after every accepted tick the
\* last-tick timestamp differs by a whole multiple of the interval from its
\* value when the clock started: the time of the start in useFrameProcessor,
\* which sets it then, and 0 in Cam, which never sets it outside a tick,
\* whenever its clock starts.
C35_MultipleFromOrigin ==
    [][/\ AccumulatorPolicy
       /\ CamAccepts => camLastFrameTimeRef' % Interval = 0]_vars

\* C35 witness: useFrameProcessor, or Cam, has accepted its second tick or a
\* later one more than a whole number of intervals after the last-tick
\* timestamp, which was set back from the time of the tick.
C35_Witness ==
    \/ /\ fpOutcome = "accepted"
       /\ fpCalls >= 2
       /\ lastFrameTimeRef < now
       /\ lastFrameTimeRef > fpStart
    \/ /\ camTick # <<>>
       /\ camCalls >= 2
       /\ camLastFrameTimeRef < now

\* The hook's scheduling state.
FPScheduling ==
    <<lastFrameTimeRef, frameCountRef, isProcessingRef, animationFrameRef,
      rafQueue, inFlight>>

\* C34 as claimed: the value getCurrentFPS returns, later than the start of
\* the clock, is the number of ticks accepted since the start divided by the
\* seconds since the start (rounded to a whole number); and a step that
\* reads it leaves the scheduling state as it is.
C34_ThroughputSinceStart ==
    /\ []((currentFPS # <<>> /\ currentFPS[1].at = now /\ now > fpStart) =>
              currentFPS[1].value = Round(fpCalls * 1000, now - fpStart))
    /\ [][(currentFPS' # <<>> /\ currentFPS' # currentFPS) =>
              FPScheduling' = FPScheduling]_vars

\* C33 as claimed: a frame clock configured with a target rate that is not
\* positive fails fast: no request is ever pending with such a rate, no tick
\* is accepted and no callback is in flight.
C33_NonPositiveRateRejected ==
    targetFPS <= 0 =>
        /\ Pending(rafQueue) = 0
        /\ fpCalls = 0
        /\ inFlight = <<>>

\* The layers the last run of the lifecycle effect mounted and its cleanup
\* has not unmounted yet.
MountedIds ==
    IF lifeCleanup = <<>> THEN {}
    ELSE {lifeCleanup[1][k].id :
              k \in {j \in 1..Len(lifeCleanup[1]) :
                         HasCallback(lifeCleanup[1][j], "onMount")}}

\* The lifecycle calls of a log that are calls of that layer.
RECURSIVE CallsTo(_, _)
CallsTo(log, id) ==
    IF log = <<>> THEN <<>>
    ELSE (IF Head(log)[1] = id THEN <<Head(log)[2]>> ELSE <<>>)
             \o CallsTo(Tail(log), id)

\* Calls that alternate, the first being onMount unless the layer is mounted.
Alternates(calls, mounted) ==
    \A k \in 1..Len(calls) :
        calls[k] = IF (k % 2 = 1) = mounted THEN "onUnmount" ELSE "onMount"

\* C36 as claimed: for every layer the onMount and onUnmount calls alternate,
\* the first being onMount, over every commit that runs the lifecycle effect
\* or its cleanup; and a tick calls the onFrame and the render of a layer
\* only while the layer is mounted.
C36_LifecycleOrder ==
    [][/\ (lifeLog' # lifeLog \/ lifeCleanup' # lifeCleanup) =>
              \A id \in LayerIds :
                  /\ Alternates(CallsTo(lifeLog', id), id \in MountedIds)
                  /\ (id \in MountedIds') =
                         ((Len(CallsTo(lifeLog', id)) % 2 = 1)
                              # (id \in MountedIds))
       /\ \A k \in 1..Len(tickLog') :
              (k > Len(tickLog) \/ tickLog'[k] # tickLog[k]) =>
                  (tickLog'[k][1] = TopLevel \/ tickLog'[k][1] \in MountedIds)
      ]_vars

\* What a registry operation on the layer id leaves alone: the lifecycle
\* callbacks of every other layer that is registered before and after it.
OthersUntouched(id) ==
    \A k \in 1..Len(lifeLog') :
        \/ lifeLog'[k][1] = id
        \/ ~(HasLayer(layers, lifeLog'[k][1])
               /\ HasLayer(layers', lifeLog'[k][1]))

\* C37 as claimed: addLayer, removeLayer and updateLayer of one layer, also
\* for a duplicate or an absent id, call neither onMount nor onUnmount of
\* another layer that stays registered.
C37_LifecycleLocal ==
    [][camMounted =>
          /\ \A l \in LifecycleLayers :
                 (AddLayer(l) /\ layers' # layers) => OthersUntouched(l.id)
          /\ \A id \in LayerIds :
                 (RemoveLayer(id) /\ lifeLog' # <<>>) => OthersUntouched(id)
          /\ \A id \in LayerIds, u \in VisibilityUpdates :
                 (UpdateLayer(id, u) /\ lifeLog' # <<>>) =>
                     OthersUntouched(id)]_vars

\* A commit of Cam that keeps the batch and changes the layer set, a layer,
\* the dimensions and the device descriptor, or the observer.
SameBatchCommit ==
    /\ camMounted
    /\ detections' = detections
    /\ \/ CamLoadedMetadata
       \/ CamObserverChange(onDetection')
       \/ \E l \in DetectionLayers : AddLayer(l) /\ layers' # layers
       \/ \E id \in LayerIds : RemoveLayer(id)
       \/ \E id \in LayerIds, u \in VisibilityUpdates : UpdateLayer(id, u)

\* The call that notifies target of the batch dets.
Notification(target, dets) == <<target, "onDetection", dets[1].id>>

\* C39 as claimed: the commit that publishes a non-empty batch while
\* detection is enabled calls the onDetection of every registered layer that
\* has one, and the onDetection observer, exactly once with the batch, and
\* calls nothing else; and a commit that keeps the batch and changes only the
\* layer set, the dimensions, the device descriptor or the observer notifies
\* no layer that was registered before it, and the observer only if it is
\* the one that changed.
C39_NotifiedOnce ==
    [][/\ (camMounted /\ enableDetection' /\ detections' # detections
              /\ detections' # <<>>) =>
              /\ \A i \in 1..Len(layers') :
                     Count(detLog', Notification(layers'[i].id, detections'))
                         = IF HasCallback(layers'[i], "onDetection")
                           THEN 1 ELSE 0
              /\ Count(detLog', Notification(TopLevel, detections'))
                     = IF onDetection' # 0 THEN 1 ELSE 0
              /\ \A k \in 1..Len(detLog') :
                     /\ detLog'[k][3] = detections'[1].id
                     /\ \/ detLog'[k][1] = TopLevel
                        \/ HasLayer(layers', detLog'[k][1])
       /\ SameBatchCommit =>
              \A k \in 1..Len(detLog') :
                  IF detLog'[k][1] = TopLevel
                  THEN onDetection' # onDetection
                  ELSE ~HasLayer(layers, detLog'[k][1])]_vars
====
